---- MODULE Spec2Model ----
(***************************************************************************)
(* A model of the query-compilation core of neode: the Statement           *)
(* serializer, the fluent Builder with its parameter table, the            *)
(* eager-fetch, cascade-delete and nested-write compilers, and the         *)
(* transactional batch runner.  Every sub-system has its own               *)
(* specification (SpecStatement, SpecBuilder, ...) over one shared tuple   *)
(* of variables; a specification leaves the variables of the other         *)
(* sub-systems unchanged.                                                  *)
(*                                                                         *)
(* Text is modelled as a sequence of atoms (words, punctuation marks,      *)
(* numbers) so that concatenation is \o and two different ways of          *)
(* building the same text yield equal values.                              *)
(***************************************************************************)
EXTENDS Integers, Sequences, FiniteSets, TLC

VARIABLES
    st,          \* Statement under construction (query/Statement.ts)
    addLog,      \* order in which the Statement's mutators were called
    builder,     \* a Builder: its _params, _statements, _current, _where, _setCount
    opened,      \* has match/optionalMatch/create/merge/with been called on it
    calls,       \* log of the calls made on the Builder, with their outcome
    models,      \* the registered Models: name -> its RelationshipTypes, in Map order
    eagerOut,    \* the projection the last find compiled
    graph,       \* the database: the nodes of a chain 0 -> 1 -> 2 -> ...
    deleteOut,   \* the last Node.delete: the query it compiled and its outcome
    payload,     \* the objects of a create/merge payload: id -> (key -> value)
    wstack,      \* the call stack of the nested-write expansion
    aliases,     \* the alias list shared by the whole expansion
    wstatus,     \* "idle", "running", "done" or "threw"
    batch,       \* the last Neode.batch call: its transaction and its outcome
    factory      \* the registry of the Models and the calls made on the hydrator
                 \* and the services

stmtVars == <<st, addLog>>
builderVars == <<builder, opened, calls>>
eagerVars == <<models, eagerOut>>
deleteVars == <<graph, deleteOut>>
writeVars == <<payload, wstack, aliases, wstatus>>
vars == <<st, addLog, builder, opened, calls, models, eagerOut, graph, deleteOut,
          payload, wstack, aliases, wstatus, batch, factory>>

(***************************************************************************)
(* Generic helpers                                                         *)
(***************************************************************************)
Range(s) == {s[i] : i \in 1..Len(s)}

\* JavaScript `undefined` for parameter values (values are strings).
Undefined == "undefined"
\* JavaScript `undefined` for the numeric fields _limit and _skip.
NoNumber == -1

(***************************************************************************)
(* Statement (query/Statement.ts)                                          *)
(***************************************************************************)
Statement(prefix) ==
    [t |-> "Statement", prefix |-> prefix, pattern |-> <<>>, where |-> <<>>, order |-> <<>>,
     detach_delete |-> <<>>, delete |-> <<>>, return |-> <<>>, set |-> <<>>,
     on_create_set |-> <<>>, on_match_set |-> <<>>, remove |-> <<>>,
     limit |-> NoNumber, skip |-> NoNumber]

\* Clause objects. Every clause is a record with the class name in t.
Match(alias, model, properties) ==
    [t |-> "Match", alias |-> alias, model |-> model, properties |-> properties]
Relationship(relationship, direction, alias) ==
    [t |-> "Relationship", relationship |-> relationship,
     direction |-> direction, alias |-> alias]
Property(property, paramName, operator) ==
    [t |-> "Property", property |-> property, param |-> paramName,
     operator |-> operator]
Order(what, how) == [t |-> "Order", what |-> what, how |-> how]
WhereStatement(prefix) ==
    [t |-> "WhereStatement", prefix |-> prefix, clauses |-> <<>>,
     connector |-> "AND"]

Statement_match(s, m) == [s EXCEPT !.pattern = Append(@, m)]
Statement_where(s, w) == [s EXCEPT !.where = Append(@, w)]
Statement_limit(s, n) == [s EXCEPT !.limit = n]
Statement_skip(s, n) == [s EXCEPT !.skip = n]
Statement_order(s, o) == [s EXCEPT !.order = Append(@, o)]
Statement_delete(s, values) == [s EXCEPT !.delete = @ \o values]
Statement_detachDelete(s, values) == [s EXCEPT !.detach_delete = @ \o values]
Statement_return(s, values) == [s EXCEPT !.return = @ \o values]
Statement_relationship(s, relationship, direction, alias) ==
    [s EXCEPT !.pattern = Append(@, Relationship(relationship, direction, alias))]
Statement_set(s, key, valueParam, operator) ==
    [s EXCEPT !.set = Append(@, Property(key, valueParam, operator))]
Statement_setRaw(s, items) == [s EXCEPT !.set = @ \o items]
Statement_onCreateSet(s, key, valueParam, operator) ==
    [s EXCEPT !.on_create_set = Append(@, Property(key, valueParam, operator))]
Statement_onMatchSet(s, key, valueParam, operator) ==
    [s EXCEPT !.on_match_set = Append(@, Property(key, valueParam, operator))]
Statement_remove(s, items) == [s EXCEPT !.remove = @ \o items]

\* One call of the local helper appendStatements: nothing for an empty
\* list, otherwise the prefix line (when there is one) and the items joined
\* by `join`.  The two output lines are kept as one entry.
appendStatements(items, prefix, join) ==
    IF Len(items) = 0 THEN <<>>
    ELSE <<[kw |-> prefix, items |-> items, join |-> join]>>

\* JavaScript truthiness of the numeric fields.
Truthy(n) == n # NoNumber /\ n # 0

\* `if (this._skip) output.push(`SKIP ${this._skip}`)` and likewise LIMIT.
numberLine(kw, n) ==
    IF Truthy(n) THEN <<[kw |-> kw, items |-> <<n>>, join |-> ""]>> ELSE <<>>

\* A variant of the serializer that emits SET ahead of REMOVE.
Statement_toString_setFirst(s, includePrefix) ==
       appendStatements(s.pattern, IF includePrefix THEN s.prefix ELSE "", "")
    \o appendStatements(s.where, "", "")
    \o appendStatements(s.set, "SET", ", ")
    \o appendStatements(s.remove, "REMOVE", ", ")
    \o appendStatements(s.on_create_set, "ON CREATE SET", ", ")
    \o appendStatements(s.on_match_set, "ON MATCH SET", ", ")
    \o appendStatements(s.delete, "DELETE", "\n")
    \o appendStatements(s.detach_delete, "DETACH DELETE", "\n")
    \o appendStatements(s.return, "RETURN", "\n")
    \o appendStatements(s.order, "ORDER BY", "\n")
    \o numberLine("SKIP", s.skip)
    \o numberLine("LIMIT", s.limit)

Statement_toString(s, includePrefix) ==
       appendStatements(s.pattern, IF includePrefix THEN s.prefix ELSE "", "")
    \o appendStatements(s.where, "", "")
    \o appendStatements(s.remove, "REMOVE", ", ")
    \o appendStatements(s.on_create_set, "ON CREATE SET", ", ")
    \o appendStatements(s.on_match_set, "ON MATCH SET", ", ")
    \o appendStatements(s.set, "SET", ", ")
    \o appendStatements(s.delete, "DELETE", "\n")
    \o appendStatements(s.detach_delete, "DETACH DELETE", "\n")
    \o appendStatements(s.return, "RETURN", "\n")
    \o appendStatements(s.order, "ORDER BY", "\n")
    \o numberLine("SKIP", s.skip)
    \o numberLine("LIMIT", s.limit)

(***************************************************************************)
(* Builder (query/Builder.ts)                                              *)
(***************************************************************************)
\* An unset field (`undefined`) of the Builder, and the test for it.
NoStatement == [t |-> "undefined"]
NoWhere == [t |-> "undefined"]
IsSet(x) == x.t # "undefined"
\* An alias that was not passed.
NoAlias == <<>>
NoModel == ""

EmptyParams == [n \in {} |-> Undefined]
ParamSet(p, name, value) ==
    [n \in DOMAIN p \cup {name} |-> IF n = name THEN value ELSE p[n]]
\* typeof this._params[variable] !== "undefined"
ParamDefined(p, name) == name \in DOMAIN p /\ p[name] # Undefined

NewBuilder ==
    [params |-> EmptyParams, statements |-> <<>>, current |-> NoStatement,
     where |-> NoWhere, setCount |-> 0]

\* The outcome of a method call: the Builder as the call left it, and
\* whether the call threw.
Res(b) == [b |-> b, threw |-> FALSE]
Thrown(b) == [b |-> b, threw |-> TRUE]

Where(left, operator, right) ==
    [t |-> "Where", left |-> left, operator |-> operator, right |-> right,
     negative |-> FALSE]
WhereId(alias, paramName) ==
    [t |-> "WhereId", alias |-> alias, param |-> paramName, negative |-> FALSE]
WhereRaw(statement) ==
    [t |-> "WhereRaw", statement |-> statement, negative |-> FALSE]
WhereBetween(alias, floorParam, ceilingParam) ==
    [t |-> "WhereBetween", alias |-> alias, floor |-> floorParam,
     ceiling |-> ceilingParam, negative |-> FALSE]
WithStatement(args) == [t |-> "WithStatement", with |-> args]
WithDistinctStatement(args) == [t |-> "WithDistinctStatement", with |-> args]

WhereStatement_append(w, clause) == [w EXCEPT !.clauses = Append(@, clause)]
\* WhereStatement.setConnector
WhereStatement_setConnector(w, connector) == [w EXCEPT !.connector = connector]
\* WhereStatement.toString: no text without a clause, otherwise
\* `${prefix} (${clauses joined by ` ${connector} `}) `.  The text is kept
\* as its prefix, its leaves and the connectors written between them.
WhereStatement_toString(w) ==
    IF Len(w.clauses) = 0 THEN [t |-> "text", empty |-> TRUE]
    ELSE [t |-> "text", empty |-> FALSE, prefix |-> w.prefix, leaves |-> w.clauses,
          connectors |-> [i \in 1..(Len(w.clauses) - 1) |-> w.connector]]

Builder_statement(b, prefix) ==
    [b EXCEPT !.statements = IF IsSet(b.current) THEN Append(@, b.current) ELSE @,
              !.current = Statement(prefix)]

Builder_whereStatement(b, prefix) ==
    IF IsSet(b.where)
    THEN IF ~IsSet(b.current)
         THEN Thrown(b)
         ELSE Res([b EXCEPT !.current = Statement_where(@, b.where),
                            !.where = WhereStatement(prefix)])
    ELSE Res([b EXCEPT !.where = WhereStatement(prefix)])

\* Atoms outside [a-z0-9]: the regular expression of _addWhereParameter
\* replaces every run of them by one underscore.
SpecialAtoms == {".", "_", "$", ":", "A", "B"}

RECURSIVE Sanitize(_, _)
Sanitize(key, inRun) ==
    IF key = <<>> THEN <<>>
    ELSE IF Head(key) \notin SpecialAtoms
         THEN <<Head(key)>> \o Sanitize(Tail(key), FALSE)
         ELSE (IF inRun THEN <<>> ELSE <<"_">>) \o Sanitize(Tail(key), TRUE)

RECURSIVE WhereVariable(_, _, _)
WhereVariable(p, base, attempt) ==
    LET variable == IF attempt = 1 THEN base
                    ELSE base \o <<"_", ToString(attempt)>>
    IN IF ParamDefined(p, variable)
       THEN WhereVariable(p, base, attempt + 1)
       ELSE variable

\* A variant that always answers the base name.
addWhereParameter(p, key, value) ==
    LET variable == WhereVariable(p, <<"where", "_">> \o Sanitize(key, FALSE), 1)
    IN [params |-> ParamSet(p, variable, value), variable |-> variable]

\* Builder._convertPropertyMap: `properties` is the list of the object's
\* entries, each [key, value].
property_alias(alias, key) ==
    IF alias # NoAlias THEN alias \o <<"_">> \o key ELSE key

RECURSIVE convertPropertyMap_params(_, _, _)
convertPropertyMap_params(p, alias, properties) ==
    IF properties = <<>> THEN p
    ELSE convertPropertyMap_params(
             ParamSet(p, property_alias(alias, Head(properties).key),
                      Head(properties).value),
             alias, Tail(properties))

convertPropertyMap(alias, properties) ==
    [i \in 1..Len(properties) |->
        Property(properties[i].key, property_alias(alias, properties[i].key), "=")]

\* A variant that opens the new Statement before it closes the filter
\* group.
openPattern_statementFirst(b, prefix, alias, model, properties) ==
    LET b0 == Builder_statement(b, prefix)
        r == Builder_whereStatement(b0, "WHERE")
    IN IF r.threw THEN r
       ELSE Res([r.b EXCEPT !.current = Statement_match(@,
                    Match(alias, model, convertPropertyMap(alias, properties)))])
\* The common body of match, create and merge.
openPattern(b, prefix, alias, model, properties) ==
    LET r == Builder_whereStatement(b, "WHERE") IN
    IF r.threw THEN r
    ELSE LET b1 == Builder_statement(r.b, prefix)
             b2 == [b1 EXCEPT !.params =
                        convertPropertyMap_params(@, alias, properties)]
         IN Res([b2 EXCEPT !.current = Statement_match(@,
                    Match(alias, model, convertPropertyMap(alias, properties)))])

Builder_match(b, alias, model, properties) ==
    openPattern(b, "MATCH", alias, model, properties)
Builder_create(b, alias, model, properties) ==
    openPattern(b, "CREATE", alias, model, properties)
Builder_merge(b, alias, model, properties) ==
    openPattern(b, "MERGE", alias, model, properties)
Builder_optionalMatch(b, alias, model) ==
    openPattern(b, "OPTIONAL MATCH", alias, model, <<>>)

Builder_with(b, args) ==
    LET r == Builder_whereStatement(b, "WHERE") IN
    IF r.threw THEN r
    ELSE LET b1 == Builder_statement(r.b, "MATCH")
         IN Res([b1 EXCEPT !.statements = Append(@, WithStatement(args))])

Builder_withDistinct(b, args) ==
    LET r == Builder_whereStatement(b, "WHERE") IN
    IF r.threw THEN r
    ELSE LET b1 == Builder_statement(r.b, "MATCH")
         IN Res([b1 EXCEPT !.statements = Append(@, WithDistinctStatement(args))])

\* The three-argument path of where: bind the value, append the condition.
whereBind(b, left, operator, value) ==
    LET r == addWhereParameter(b.params, left, value)
        \* `this._params[right] = value` repeats the assignment
        p == ParamSet(r.params, r.variable, value)
    IN [b EXCEPT !.params = p,
                 !.where = WhereStatement_append(@,
                     Where(left, operator, <<"$">> \o r.variable))]

RECURSIVE whereEach(_, _)
whereEach(b, entries) ==
    IF entries = <<>> THEN b
    ELSE whereEach(
             IF Head(entries).left = <<>> THEN b
             ELSE whereBind(b, Head(entries).left, Head(entries).operator,
                            Head(entries).value),
             Tail(entries))

\* Builder.where.  args.form is "none" (no argument, or a falsy first one),
\* "kv" (left, value), "kov" (left, operator, value), "object" (a map, given
\* as its entries), "array" (a list of argument tuples, given as entries)
\* or "raw" (one string).
Builder_where(b, args) ==
    IF ~IsSet(b.where) THEN Thrown(b)
    ELSE CASE args.form = "none" -> Res(b)
           [] args.form = "kv" ->
                Res(whereBind(b, args.left, "=", args.value))
           [] args.form = "kov" ->
                Res(whereBind(b, args.left, args.operator, args.value))
           [] args.form \in {"object", "array"} ->
                Res(whereEach(b, args.entries))
           [] args.form = "raw" ->
                Res([b EXCEPT !.where = WhereStatement_append(@, WhereRaw(args.left))])

Builder_or(b, args) ==
    LET r == Builder_whereStatement(b, "OR") IN
    IF r.threw THEN r ELSE Builder_where(r.b, args)

Builder_whereId(b, alias, value) ==
    IF ~IsSet(b.where) THEN Thrown(b)
    ELSE LET r == addWhereParameter(b.params, alias \o <<"_", "id">>, value)
         IN Res([b EXCEPT !.params = r.params,
                          !.where = WhereStatement_append(@, WhereId(alias, r.variable))])

Builder_whereRaw(b, clause) ==
    IF ~IsSet(b.where) THEN Thrown(b)
    ELSE Res([b EXCEPT !.where = WhereStatement_append(@, WhereRaw(clause))])

\* `this._where!.last.setNegative()`: throws a TypeError when the group is
\* empty, because `last` is then undefined.
setLastNegative(b) ==
    IF Len(b.where.clauses) = 0 THEN Thrown(b)
    ELSE Res([b EXCEPT !.where.clauses[Len(b.where.clauses)].negative = TRUE])

Builder_whereNot(b, args) ==
    LET r == Builder_where(b, args) IN
    IF r.threw THEN r ELSE setLastNegative(r.b)

Builder_whereBetween(b, alias, floor, ceiling) ==
    IF ~IsSet(b.where) THEN Thrown(b)
    ELSE LET f == addWhereParameter(b.params, alias \o <<"_", "floor">>, floor)
             c == addWhereParameter(f.params, alias \o <<"_", "ceiling">>, ceiling)
         IN Res([b EXCEPT !.params = c.params,
                          !.where = WhereStatement_append(@,
                              WhereBetween(alias, f.variable, c.variable))])

Builder_whereNotBetween(b, alias, floor, ceiling) ==
    LET r == Builder_whereBetween(b, alias, floor, ceiling) IN
    IF r.threw THEN r ELSE setLastNegative(r.b)

\* Methods that only forward to the current Statement: the getter
\* `current` throws when no Statement was opened.
Builder_delete(b, args) ==
    IF ~IsSet(b.current) THEN Thrown(b)
    ELSE Res([b EXCEPT !.current = Statement_delete(@, args)])
Builder_detachDelete(b, args) ==
    IF ~IsSet(b.current) THEN Thrown(b)
    ELSE Res([b EXCEPT !.current = Statement_detachDelete(@, args)])
Builder_remove(b, items) ==
    IF ~IsSet(b.current) THEN Thrown(b)
    ELSE Res([b EXCEPT !.current = Statement_remove(@, items)])
Builder_return(b, args) ==
    IF ~IsSet(b.current) THEN Thrown(b)
    ELSE Res([b EXCEPT !.current = Statement_return(@, args)])
Builder_limit(b, limit) ==
    IF ~IsSet(b.current) THEN Thrown(b)
    ELSE Res([b EXCEPT !.current = Statement_limit(@, limit)])
Builder_skip(b, skip) ==
    IF ~IsSet(b.current) THEN Thrown(b)
    ELSE Res([b EXCEPT !.current = Statement_skip(@, skip)])
Builder_relationship(b, relationship, direction, alias) ==
    IF ~IsSet(b.current) THEN Thrown(b)
    ELSE Res([b EXCEPT !.current =
                 Statement_relationship(@, relationship, direction, alias)])
\* `this.current` is evaluated before the argument list, so a Builder
\* without a Statement throws before _convertPropertyMap runs.
Builder_to(b, alias, model, properties) ==
    IF ~IsSet(b.current) THEN Thrown(b)
    ELSE LET b1 == [b EXCEPT !.params =
                        convertPropertyMap_params(@, alias, properties)]
         IN Res([b1 EXCEPT !.current = Statement_match(@,
                    Match(alias, model, convertPropertyMap(alias, properties)))])
Builder_toAnything(b) ==
    IF ~IsSet(b.current) THEN Thrown(b)
    ELSE Res([b EXCEPT !.current = Statement_match(@, Match(NoAlias, NoModel, <<>>))])

\* The name `set_${this._setCount}`.
setAlias(n) == <<"set", "_", ToString(n)>>

\* The string-property path shared by set, onCreateSet and onMatchSet:
\* the parameter is bound and the counter advanced before `this.current`
\* is read.
bindSet(b, section, property, value) ==
    LET alias == setAlias(b.setCount)
        b1 == [b EXCEPT !.params = ParamSet(@, alias, value),
                        !.setCount = @ + 1]
    IN IF ~IsSet(b1.current) THEN Thrown(b1)
       ELSE Res([b1 EXCEPT !.current =
                CASE section = "set" -> Statement_set(@, property, alias, "=")
                  [] section = "on_create_set" -> Statement_onCreateSet(@, property, alias, "=")
                  [] section = "on_match_set" -> Statement_onMatchSet(@, property, alias, "=")])

\* set(property, value) with a string property.
setOne(b, property, value) ==
    IF value # Undefined THEN bindSet(b, "set", property, value) ELSE Res(b)

RECURSIVE setEach(_, _, _)
setEach(b, section, entries) ==
    IF entries = <<>> THEN Res(b)
    ELSE LET r == IF section = "set"
                  THEN setOne(b, Head(entries).key, Head(entries).value)
                  ELSE bindSet(b, section, Head(entries).key, Head(entries).value)
         IN IF r.threw THEN r ELSE setEach(r.b, section, Tail(entries))

\* Builder.set.  args.form is "map" (an object, given as its entries) or
\* "kv" (property, value).
Builder_set(b, args) ==
    IF args.form = "map" THEN setEach(b, "set", args.entries)
    ELSE setOne(b, args.key, args.value)

Builder_onCreateSet(b, args) ==
    IF args.form = "map" THEN setEach(b, "on_create_set", args.entries)
    ELSE bindSet(b, "on_create_set", args.key, args.value)

Builder_onMatchSet(b, args) ==
    IF args.form = "map" THEN setEach(b, "on_match_set", args.entries)
    ELSE bindSet(b, "on_match_set", args.key, args.value)

orderOne(b, what, how) ==
    IF ~IsSet(b.current) THEN Thrown(b)
    ELSE Res([b EXCEPT !.current = Statement_order(@, Order(what, how))])

RECURSIVE orderEach(_, _)
orderEach(b, entries) ==
    IF entries = <<>> THEN Res(b)
    ELSE LET r == orderOne(b, Head(entries).key, Head(entries).value)
         IN IF r.threw THEN r ELSE orderEach(r.b, Tail(entries))

\* Builder.orderBy.  args.form is "pair" (property, direction), "single"
\* (property), "object" (a map, given as its entries) or "none".
Builder_orderBy(b, args) ==
    CASE args.form = "pair" -> orderOne(b, args.key, args.value)
      [] args.form = "single" -> orderOne(b, args.key, "")
      [] args.form = "object" -> orderEach(b, args.entries)
      [] args.form = "none" -> Res(b)

\* Builder.build up to the serialization: the pending filter group and
\* Statement are closed.  The statements of the result are the query.
Builder_build(b) ==
    LET r == Builder_whereStatement(b, "") IN
    IF r.threw THEN r ELSE Res(Builder_statement(r.b, "MATCH"))

\* Builder.pattern: the Statements serialized without their keyword.
Builder_pattern(b) ==
    LET r == Builder_whereStatement(b, "") IN
    IF r.threw THEN [b |-> r.b, threw |-> TRUE, text |-> <<>>]
    ELSE LET b1 == Builder_statement(r.b, "MATCH")
         IN [b |-> b1, threw |-> FALSE,
             text |-> [i \in 1..Len(b1.statements) |->
                          Statement_toString(b1.statements[i], FALSE)]]

(***************************************************************************)
(* Model and RelationshipType (unnamed/part_000, RelationshipType.ts)      *)
(***************************************************************************)
NoModels == <<>>
RelationshipType(name, type, relationship, direction, target, eager, cascade, nodeAlias) ==
    [name |-> name, type |-> type, relationship |-> relationship,
     direction |-> direction, target |-> target, eager |-> eager,
     cascade |-> cascade, nodeAlias |-> nodeAlias]

\* Neode.model(name, schema) with a schema that declares no relationship.
Neode_define(ms, name) ==
    [n \in DOMAIN ms \cup {name} |-> IF n = name THEN <<>> ELSE ms[n]]

\* Map.set(name, rel): a known key keeps its place, a new key goes last.
Model_relationship(rels, rel) ==
    IF \E i \in 1..Len(rels) : rels[i].name = rel.name
    THEN [i \in 1..Len(rels) |-> IF rels[i].name = rel.name THEN rel ELSE rels[i]]
    ELSE Append(rels, rel)

IsEager(rel) == rel.eager
\* A variant that takes every RelationshipType for eager.
Model_eager_all(rels) == rels
\* Model.eager: the RelationshipTypes declared eager, in Map order.
Model_eager(rels) == SelectSeq(rels, IsEager)

\* Neode.model(name) inside try/catch: an unknown name leaves the target
\* model undefined.
Neode_modelOrUndefined(ms, target) ==
    IF target \in DOMAIN ms THEN target ELSE NoModel

(***************************************************************************)
(* EagerUtils.ts                                                           *)
(***************************************************************************)
MAX_EAGER_DEPTH == 3
NoProjection == [t |-> "undefined"]

\* A variant that expands one level further.
expandsEager_deeper(model, depth) == model # NoModel /\ depth <= MAX_EAGER_DEPTH + 1
\* The test of eagerNode: `model && depth <= MAX_EAGER_DEPTH`.
expandsEager(model, depth) == model # NoModel /\ depth <= MAX_EAGER_DEPTH

RECURSIVE eagerPattern(_, _, _, _)
RECURSIVE eagerNode(_, _, _, _)
RECURSIVE eagerRelationship(_, _, _, _, _, _)

\* `${name}: [ ${builder.pattern()} | ${fields} ]`, with [0] for the
\* single shapes.  The direction and the target label of the pattern are
\* kept next to its text.
eagerPattern(ms, depth, alias, rel) ==
    LET relationshipVariable == alias \o <<"_">> \o rel.name \o <<"_", "rel">>
        nodeVariable == alias \o <<"_">> \o rel.name \o <<"_", "node">>
        targetModel == Neode_modelOrUndefined(ms, rel.target)
        b1 == Builder_match(NewBuilder, alias, NoModel, <<>>).b
        b2 == Builder_relationship(b1, rel.relationship, rel.direction,
                                   relationshipVariable).b
        b3 == Builder_to(b2, nodeVariable, targetModel, <<>>).b
        fields ==
            IF rel.type \in {"node", "nodes"}
            THEN eagerNode(ms, depth + 1, nodeVariable, targetModel)
            ELSE eagerRelationship(ms, depth + 1, relationshipVariable,
                                   rel.nodeAlias, nodeVariable, targetModel)
    IN [t |-> "pattern", name |-> rel.name, pattern |-> Builder_pattern(b3).text,
        fields |-> fields, first |-> rel.type \in {"node", "relationship"},
        direction |-> rel.direction, target |-> targetModel]

\* `alias { .*, id, labels, <one eagerPattern per eager relationship> }`.
eagerNode(ms, depth, alias, model) ==
    LET eager == IF expandsEager(model, depth) THEN Model_eager(ms[model]) ELSE <<>>
    IN [t |-> "node", indent |-> depth * 2, alias |-> alias,
        eager |-> [i \in 1..Len(eager) |-> eagerPattern(ms, depth, alias, eager[i])]]

\* `alias { .*, id, type, nodeAlias: <eagerNode of the other end> }`.
eagerRelationship(ms, depth, alias, nodeAlias, nodeVariable, nodeModel) ==
    [t |-> "relationship", indent |-> depth * 2, alias |-> alias,
     nodeAlias |-> nodeAlias,
     node |-> eagerNode(ms, depth + 1, nodeVariable, nodeModel)]

(***************************************************************************)
(* Services/DeleteNode.ts                                                  *)
(***************************************************************************)
DeleteNode_MAX_EAGER_DEPTH == 10

RECURSIVE addCascadeDeleteNode(_, _, _, _, _, _)
RECURSIVE cascadeEach(_, _, _, _, _, _)

\* The loop over a Model's RelationshipTypes: those with cascade DELETE
\* are expanded, cascade DETACH is an empty branch.
cascadeEach(ms, b, alias, rels, carried, toDepth) ==
    IF rels = <<>> THEN Res(b)
    ELSE LET r == IF Head(rels).cascade = "DELETE"
                  THEN addCascadeDeleteNode(ms, b, alias, Head(rels), carried, toDepth)
                  ELSE Res(b)
         IN IF r.threw THEN r
            ELSE cascadeEach(ms, r.b, alias, Tail(rels), carried, toDepth)

\* A variant of the depth test that lets one more level through.
depthReached_late(carried, toDepth) == Len(carried) > toDepth + 1
\* `if (aliases.length > toDepth) return;`
depthReached(carried, toDepth) == Len(carried) > toDepth

\* `carried` is the parameter `aliases` of the source.
addCascadeDeleteNode(ms, b, fromAlias, relationship, carried, toDepth) ==
    IF depthReached(carried, toDepth) THEN Res(b)
    ELSE LET relAlias == fromAlias \o relationship.name \o <<"_", "rel">>
             nodeAlias == fromAlias \o relationship.name \o <<"_", "node">>
             r1 == Builder_optionalMatch(b, fromAlias, NoModel)
             r2 == Builder_relationship(r1.b, relationship.relationship,
                                        relationship.direction, relAlias)
             r3 == Builder_to(r2.b, nodeAlias, relationship.target, <<>>)
             r4 == cascadeEach(ms, r3.b, nodeAlias, ms[relationship.target],
                               Append(carried, nodeAlias), toDepth)
         IN \* neode.model(target) throws for a name that is not registered
            IF relationship.target \notin DOMAIN ms THEN Thrown(b)
            ELSE IF r1.threw THEN r1
            ELSE IF r2.threw THEN r2
            ELSE IF r3.threw THEN r3
            ELSE IF r4.threw THEN r4
            ELSE Builder_detachDelete(r4.b, <<nodeAlias>>)

\* DeleteNode up to builder.execute: the Builder it has filled and built.
DeleteNode(ms, identity, model, toDepth) ==
    LET alias == <<"this">>
        r1 == Builder_match(NewBuilder, alias, model, <<>>)
        r2 == Builder_whereId(r1.b, alias, identity)
        r3 == cascadeEach(ms, r2.b, alias, ms[model], <<alias>>, toDepth)
        r4 == Builder_detachDelete(r3.b, <<alias>>)
    IN IF r1.threw THEN r1
       ELSE IF r2.threw THEN r2
       ELSE IF r3.threw THEN r3
       ELSE IF r4.threw THEN r4
       ELSE Builder_build(r4.b)

\* Builder.build: the query text, one serialized Statement per line group.
Builder_query(b) ==
    [i \in 1..Len(b.statements) |-> Statement_toString(b.statements[i], TRUE)]

(***************************************************************************)
(* Builder.execute (unnamed/part_010) and Neode.cypher, readCypher and     *)
(* writeCypher (query/Statement.ts, lines 1119-1175)                       *)
(***************************************************************************)
\* `.join("\n").replace(/\n+/g, "\n")`: the sections of the Statements in
\* their order; an empty Statement and a filter group without a condition
\* have no text and leave no line.
RECURSIVE joinLines(_)
joinLines(texts) ==
    IF texts = <<>> THEN <<>>
    ELSE SelectSeq(Head(texts), LAMBDA section :
                \E i \in 1..Len(section.items) :
                    ~(section.kw = "" /\ section.items[i].clauses = <<>>))
         \o joinLines(Tail(texts))

\* A variant that dispatches every query through a write session.
executeSession_alwaysWrite(queryMode) == "write"
\* execute: `queryMode === QueryMode.WRITE` takes neode.writeSession() and
\* session.executeWrite, every other mode neode.readSession() and
\* session.executeRead.
executeSession(queryMode) == IF queryMode = "WRITE" THEN "write" ELSE "read"

\* new QueryError(query, params, cause).
QueryError(query, params, cause) ==
    [t |-> "QueryError", message |-> "ERROR_QUERY", statusCode |-> 500,
     query |-> query, params |-> params, cause |-> cause]

\* The catch block of Builder.execute: `throw error`.
Builder_execute_catch(query, params, error) == error

\* The catch block of Neode.cypher.  A query is a string, [text |-> ...], or
\* an object [text |-> ..., parameters |-> ...].
Neode_cypher_catch(query, params, error) ==
    QueryError(query.text,
               IF "parameters" \in DOMAIN query THEN query.parameters ELSE params,
               error)

\* The session a call of the cypher family runs in: readCypher and
\* writeCypher pass theirs, cypher opens `this.session()`.
cypherSession(api) ==
    CASE api = "readCypher" -> "read" [] api = "writeCypher" -> "write"
      [] OTHER -> "default"

(***************************************************************************)
(* The database behind Builder.execute, for the queries DeleteNode         *)
(* compiles and a graph that is one chain 0 -> 1 -> 2 -> ... of nodes that *)
(* carry the labels and relationship types the schema names.               *)
(***************************************************************************)
Null == -1

\* Cypher separates the items of a clause by commas; white space and line
\* breaks do not separate them.
Cypher_parses(query) ==
    \A i \in 1..Len(query) : \A k \in 1..Len(query[i]) :
        LET sec == query[i][k]
        IN (/\ sec.kw \in {"REMOVE", "ON CREATE SET", "ON MATCH SET", "SET", "DELETE",
                            "DETACH DELETE", "RETURN", "ORDER BY"}
            /\ Len(sec.items) >= 2) => sec.join = ", "

Bind(env, alias, n) ==
    [a \in DOMAIN env \cup {alias} |-> IF a = alias THEN n ELSE env[a]]

\* One serialized Statement run on the graph g with the aliases bound so
\* far: (alias) WHERE id(alias) = $p binds the node of that identity,
\* (from)-[rel]->(to) binds the next node of the chain or null, and
\* DETACH DELETE removes the nodes its aliases are bound to.
Cypher_statement(text, params, env, g) ==
    LET pats == SelectSeq(text, LAMBDA sec : sec.kw \in {"MATCH", "OPTIONAL MATCH"})
        wheres == SelectSeq(text, LAMBDA sec : sec.kw = "")
        dels == SelectSeq(text, LAMBDA sec : sec.kw = "DETACH DELETE")
        groups == UNION {Range(wheres[x].items) : x \in 1..Len(wheres)}
        ids == {params[c.param] :
                   c \in {c \in UNION {Range(w.clauses) : w \in groups} : c.t = "WhereId"}}
        env1 ==
            IF pats = <<>> THEN env
            ELSE LET items == pats[1].items
                 IN IF Len(items) = 1
                    THEN Bind(env, items[1].alias,
                              IF \E n \in g : ToString(n) \in ids
                              THEN CHOOSE n \in g : ToString(n) \in ids ELSE Null)
                    ELSE Bind(env, items[3].alias,
                              LET from == env[items[1].alias]
                              IN IF from # Null /\ from + 1 \in g THEN from + 1 ELSE Null)
        gone == IF dels = <<>> THEN {}
                ELSE {env1[a] : a \in Range(dels[1].items)}
    IN [env |-> env1, g |-> g \ gone]

RECURSIVE Cypher_run(_, _, _, _)
Cypher_run(query, params, env, g) ==
    IF query = <<>> THEN g
    ELSE LET r == Cypher_statement(Head(query), params, env, g)
         IN Cypher_run(Tail(query), params, r.env, r.g)

\* session.executeWrite(tx => tx.run(query, params)): a query that does not
\* parse is rejected and changes nothing.
Cypher_execute(query, params, g) ==
    IF Cypher_parses(query)
    THEN [rejected |-> FALSE, graph |-> Cypher_run(query, params, <<>>, g)]
    ELSE [rejected |-> TRUE, graph |-> g]

(***************************************************************************)
(* The nested-write compiler (Services/DetachFrom.ts, lines 410-851)       *)
(*                                                                         *)
(* A payload value is [k |-> kind, v |-> ...]: a "scalar", a "node" (a     *)
(* Node instance, v its identity), a "bag" (v the id of an object of the   *)
(* payload) or an "array" (v a sequence of values).  The recursion of      *)
(* addNodeToStatement is run on an explicit call stack, one frame per call *)
(* of addNodeToStatement.                                                  *)
(***************************************************************************)
MAX_CREATE_DEPTH == 99
ORIGINAL_ALIAS == <<"this">>

\* new Property(name, schema), with the flags of the schema as booleans (a
\* flag that is left out is FALSE).  The constructor copies primary and
\* readonly; it has no assignment to _protected, which stays undefined
\* whatever the schema says.
ModelProperty(name, schema) ==
    [name |-> name, primary |-> schema.primary, protected |-> FALSE,
     readonly |-> schema.readonly]
\* The getter Property.protected: `this._primary ?? this._protected`.
Property_protected(p) == IF p.primary THEN TRUE ELSE p.protected

\* The property declarations of the Models of a write: a primary key and
\* a plain property.  Model.primaryKey is "id", Model.mergeFields is ["id"].
WriteProperties ==
    <<ModelProperty(<<"id">>, [primary |-> TRUE, protected |-> FALSE, readonly |-> FALSE]),
      ModelProperty(<<"name">>, [primary |-> FALSE, protected |-> FALSE, readonly |-> FALSE])>>

\* splitProperties: the supplied properties, in the order of the
\* declarations model.properties, split into the inline map, ON CREATE SET
\* and SET.
splitProperties(mode, model, properties, mergeOn) ==
    LET given == SelectSeq(model, LAMBDA p : p.name \in DOMAIN properties)
        entries(ps) == [i \in 1..Len(ps) |->
                           [key |-> ps[i].name, value |-> properties[ps[i].name].v]]
        isInline(p) == mode = "create" \/ p.name \in mergeOn
        isOnCreate(p) == ~isInline(p) /\ (Property_protected(p) \/ p.primary)
        isSet(p) == ~isInline(p) /\ ~isOnCreate(p) /\ ~p.readonly
    IN [inline |-> entries(SelectSeq(given, isInline)),
        onCreate |-> entries(SelectSeq(given, isOnCreate)),
        onMatch |-> <<>>,
        set |-> entries(SelectSeq(given, isSet))]

\* GenerateDefaultValues: a new object that holds the keys of the Model's
\* schema which the given object has (no declaration has a default).
GenerateDefaultValues(ms, model, properties) ==
    LET schema == {WriteProperties[i].name : i \in 1..Len(WriteProperties)}
                  \cup {ms[model][i].name : i \in 1..Len(ms[model])}
    IN [key \in DOMAIN properties \cap schema |-> properties[key]]

\* The loops `for ([key, value] of Object.entries(map)) builder.<section>(...)`.
RECURSIVE setProperties(_, _, _, _)
setProperties(b, section, alias, entries) ==
    IF entries = <<>> THEN Res(b)
    ELSE LET args == [form |-> "kv", key |-> alias \o <<".">> \o Head(entries).key,
                      value |-> Head(entries).value]
             r == IF section = "set" THEN Builder_set(b, args)
                  ELSE Builder_onCreateSet(b, args)
         IN IF r.threw THEN r ELSE setProperties(r.b, section, alias, Tail(entries))

NoFrame == [t |-> "undefined"]
\* A call of addNodeToStatement: its arguments, where its loop over the
\* relationships stands, and the relationship pattern its caller emits
\* when it returns.
Frame(alias, model, properties, mode, after) ==
    [t |-> "addNodeToStatement", alias |-> alias, model |-> model,
     properties |-> properties, mode |-> mode, entered |-> FALSE,
     rel |-> 1, idx |-> 0, after |-> after]

\* addNodeToStatement up to its loop over the relationships.  A merge
\* merges on the primary key: Model.mergeFields for a nested entity, and
\* the mergeOn the writes of this model pass for the root.
addNodeToStatement_head(b, list, f) ==
    LET mode == f.mode
        sp == splitProperties(mode, WriteProperties, f.properties, {<<"id">>})
        r1 == IF mode = "create" THEN Builder_create(b, f.alias, f.model, sp.inline)
              ELSE Builder_merge(b, f.alias, f.model, sp.inline)
        r2 == setProperties(r1.b, "on_create_set", f.alias, sp.onCreate)
        r3 == setProperties(r2.b, "on_create_set", f.alias, sp.onMatch)
        r4 == setProperties(r3.b, "set", f.alias, sp.set)
    IN (IF r1.threw THEN r1 ELSE IF r2.threw THEN r2
        ELSE IF r3.threw THEN r3 ELSE r4)
       @@ [aliases |-> IF f.alias \in Range(list) THEN list ELSE Append(list, f.alias)]

\* "Create the Relationship": builder[mode](alias).relationship(...).to(targetAlias).
createRelationship(b, alias, relAlias, targetAlias, relationship, mode) ==
    LET r1 == IF mode = "create" THEN Builder_create(b, alias, NoModel, <<>>)
              ELSE Builder_merge(b, alias, NoModel, <<>>)
        r2 == Builder_relationship(r1.b, relationship.relationship,
                                   relationship.direction, relAlias)
        r3 == Builder_to(r2.b, targetAlias, NoModel, <<>>)
    IN IF r1.threw THEN r1 ELSE IF r2.threw THEN r2 ELSE r3

\* A variant whose guard lets one more entry in.
guardExceeded_late(list) == Len(list) > MAX_CREATE_DEPTH + 1
\* `if (aliases.length > MAX_CREATE_DEPTH) return;`
guardExceeded(list) == Len(list) > MAX_CREATE_DEPTH

\* Does the message hold the text?
Mentions(message, text) ==
    \E i \in 1..(Len(message) - Len(text) + 1) : SubSeq(message, i, i + Len(text) - 1) = text

\* Neode.model(name) for a name that is not registered: the Error names
\* the name asked for and lists the Models that are defined.
Neode_model_error(ms, name) ==
    LET defined == CHOOSE s \in [1..Cardinality(DOMAIN ms) -> DOMAIN ms] : Range(s) = DOMAIN ms
    IN [t |-> "Error",
        message |-> <<"Couldn't find a definition for \"", name, "\".">>
                    \o (IF DOMAIN ms = {}
                        THEN <<" It looks like no models have been defined.">>
                        ELSE <<" The models currently defined are [">> \o defined \o <<"]">>)]

\* `if (!relationship.target)` in the loop of addNodeToStatement
targetMissing(relationship) == relationship.target = NoModel
\* `A target defintion must be defined for ${key} on model ${model.name}`
targetMissing_error(key, model) ==
    [t |-> "Error",
     message |-> <<"A target defintion must be defined for ">> \o key
                 \o <<" on model ", model>>]

\* What a call that did not call addNodeToStatement leaves behind.
Returned(r) ==
    [kind |-> IF r.threw THEN "threw" ELSE "return", b |-> r.b, frame |-> NoFrame]

\* addNodeRelationshipToStatement up to the point where it returns or
\* calls addNodeToStatement: "return" with the Builder it leaves, "threw",
\* or "call" with the frame of the call.
addNodeRelationshipToStatement(ms, b, heap, alias, relAlias, targetAlias, relationship, value, list, mode) ==
    LET target == relationship.target
        isMap == value.k = "bag" /\ DOMAIN heap[value.v] # {}
        \* the target node, when it is given by identity or by primary key
        r1 == Builder_match(b, targetAlias, NoModel, <<>>)
        bound == IF value.k = "node"
                 THEN IF r1.threw THEN r1 ELSE Builder_whereId(r1.b, targetAlias, value.v)
                 ELSE IF value.k = "scalar"
                 THEN Builder_merge(b, targetAlias, target,
                                    <<[key |-> <<"id">>, value |-> value.v]>>)
                 ELSE Res(b)
    IN IF guardExceeded(list) THEN Returned(Res(b))
       \* neode.model(target) throws for a name that is not registered
       ELSE IF (value.k = "scalar" \/ isMap) /\ target \notin DOMAIN ms
       THEN Returned(Thrown(b)) @@ [error |-> Neode_model_error(ms, target)]
       ELSE IF isMap
       THEN [kind |-> "call", b |-> b,
             frame |-> Frame(targetAlias, target,
                             GenerateDefaultValues(ms, target, heap[value.v]), mode,
                             [t |-> "createRelationship", alias |-> alias,
                              relAlias |-> relAlias, targetAlias |-> targetAlias,
                              relationship |-> relationship])]
       ELSE IF bound.threw THEN Returned(bound)
       ELSE Returned(createRelationship(bound.b, alias, relAlias, targetAlias,
                                        relationship, mode))

\* addRelationshipToStatement: the value is a map that holds the other node
\* under the relationship's node alias; that key is deleted from the map
\* before the node is treated as in addNodeRelationshipToStatement.  No
\* relationship of the model declares properties of its own.
addRelationshipToStatement(ms, b, heap, alias, relAlias, targetAlias, relationship, value, list, mode) ==
    IF guardExceeded(list) THEN Returned(Res(b)) @@ [heap |-> heap]
    ELSE LET nodeAlias == relationship.nodeAlias
             has == value.k = "bag" /\ nodeAlias \in DOMAIN heap[value.v]
             nodeValue == IF has THEN heap[value.v][nodeAlias]
                          ELSE [k |-> "undefined", v |-> Undefined]
             heap1 == IF has
                      THEN [heap EXCEPT ![value.v] =
                               [key \in DOMAIN @ \ {nodeAlias} |-> @[key]]]
                      ELSE heap
         IN addNodeRelationshipToStatement(ms, b, heap1, alias, relAlias,
                targetAlias, relationship, nodeValue, list, mode)
            @@ [heap |-> heap1]

(***************************************************************************)
(* Neode.transaction and Neode.batch (query/Statement.ts, lines 1207-1286) *)
(***************************************************************************)
\* util.ts: class TransactionError
TransactionError(errors) == [t |-> "TransactionError", errors |-> errors]

\* A promise of tx.run is [status |-> "pending"], or settled as
\* Promise.allSettled reports it: fulfilled with a value, the QueryResult,
\* or rejected with a reason.
\* A variant that lists the outcomes in the order in which they arrived.
Promise_allSettled_byArrival(promises, arrival) ==
    [k \in 1..Len(promises) |-> promises[arrival[k]]]
\* Promise.allSettled(queries.map(...)): the outcomes in the order of the
\* promises, whatever the order in which they settled.
Promise_allSettled(promises, arrival) ==
    [i \in 1..Len(promises) |-> promises[i]]

\* A variant that throws only when no query was fulfilled.
batch_body_allRejected(results) ==
    LET rejected == SelectSeq(results, LAMBDA r : r.status = "rejected")
        errorResults == [i \in 1..Len(rejected) |-> rejected[i].reason]
        fulfilled == SelectSeq(results, LAMBDA r : r.status = "fulfilled")
    IN IF Len(errorResults) > 0 /\ Len(fulfilled) = 0
       THEN [threw |-> TRUE, error |-> TransactionError(errorResults)]
       ELSE [threw |-> FALSE, value |-> [i \in 1..Len(fulfilled) |-> fulfilled[i].value]]
\* The callback batch passes to transaction, from the point where
\* Promise.allSettled has resolved.
batch_body(results) ==
    LET rejected == SelectSeq(results, LAMBDA r : r.status = "rejected")
        errorResults == [i \in 1..Len(rejected) |-> rejected[i].reason]
        fulfilled == SelectSeq(results, LAMBDA r : r.status = "fulfilled")
    IN IF Len(errorResults) > 0
       THEN [threw |-> TRUE, error |-> TransactionError(errorResults)]
       ELSE [threw |-> FALSE, value |-> [i \in 1..Len(fulfilled) |-> fulfilled[i].value]]

(***************************************************************************)
(* The hydrator (Factory.ts) and the registry (ModelMap)                   *)
(*                                                                         *)
(* A value of a row is [k |-> kind, ...]: "undefined", "null", "int" (a    *)
(* neo4j Integer), "string" (v a text), "array" (v a sequence of values)   *)
(* or "object" (v a function from own keys to values).  Keys are texts.    *)
(* A registry is [names, labels, properties, models]: the Model names in   *)
(* Map order, each Model's labels and declared property keys, and its      *)
(* RelationshipTypes.  A RelationshipType handed to the hydrator carries   *)
(* its declared property keys in the field `properties`.                   *)
(***************************************************************************)
JsUndefined == [k |-> "undefined"]
JsNull == [k |-> "null"]
Integer(n) == [k |-> "int", v |-> n]
String(s) == [k |-> "string", v |-> s]
Array(s) == [k |-> "array", v |-> s]
Object(f) == [k |-> "object", v |-> f]
EmptyObject == [key \in {} |-> JsNull]

EAGER_ID == <<"__EAGER_ID__">>
EAGER_LABELS == <<"__EAGER_LABELS__">>
EAGER_TYPE == <<"__EAGER_TYPE__">>
DIRECTION_IN == "DIRECTION_IN"

\* `object[key]` on a value that is neither null nor undefined.
Get(object, key) ==
    IF object.k = "object" /\ key \in DOMAIN object.v THEN object.v[key] ELSE JsUndefined
\* `{...object, [key]: value}`
Spread(object, key, value) ==
    [x \in DOMAIN object \cup {key} |-> IF x = key THEN value ELSE object[x]]
\* util.hasOwn: false for null, undefined and primitives (an array or an
\* Integer has none of the keys the hydrator asks for).
hasOwn(object, key) == object.k = "object" /\ key \in DOMAIN object.v
\* The values a condition takes for true; an Integer, an array and an object
\* are objects and therefore true.
IsTruthy(value) ==
    value.k \notin {"undefined", "null"} /\ ~(value.k = "string" /\ value.v = <<>>)

\* The code unit of the first character of an atom.
CodeUnit(atom) == CASE atom = ":" -> 58 [] atom = "A" -> 65 [] atom = "B" -> 66
                    [] atom = "C" -> 67 [] OTHER -> 95
\* String comparison by code units: a < b.
RECURSIVE Before(_, _)
Before(a, b) ==
    IF b = <<>> THEN FALSE
    ELSE IF a = <<>> THEN TRUE
    ELSE IF Head(a) = Head(b) THEN Before(Tail(a), Tail(b))
    ELSE CodeUnit(Head(a)) < CodeUnit(Head(b))
\* Array.prototype.sort() on an array of strings.
RECURSIVE Array_sort(_)
Array_sort(s) ==
    IF s = <<>> THEN <<>>
    ELSE LET rest == Array_sort(Tail(s))
         IN SelectSeq(rest, LAMBDA x : Before(x, Head(s))) \o <<Head(s)>>
            \o SelectSeq(rest, LAMBDA x : ~Before(x, Head(s)))
\* Array.prototype.join(separator) on an array of strings.
RECURSIVE Array_join(_, _)
Array_join(s, separator) ==
    IF s = <<>> THEN <<>>
    ELSE IF Len(s) = 1 THEN s[1]
    ELSE s[1] \o separator \o Array_join(Tail(s), separator)

\* ModelMap.getByLabels: the first Model, in Map order, whose sorted labels
\* joined by ":" equal the sorted labels of the row joined by ":".
getByLabels(neode, labelOrArray) ==
    LET labels == IF labelOrArray.k = "array"
                  THEN [i \in 1..Len(labelOrArray.v) |-> labelOrArray.v[i].v]
                  ELSE <<labelOrArray.v>>
        key == Array_join(Array_sort(labels), <<":">>)
        hits == SelectSeq(neode.names, LAMBDA name :
                    Array_join(Array_sort(neode.labels[name]), <<":">>) = key)
    IN IF hits = <<>> THEN NoModel ELSE hits[1]

\* The outcome of a call of the hydrator: a thrown Error or a value.
Failed(message) == [threw |-> TRUE, error |-> message]
Done(value) == [threw |-> FALSE, value |-> value]
\* The optional parameter `definition`: left out, a Model or a Model name.
NoDefinition == [t |-> "undefined"]

\* A hydrator that keeps every field of the data.
pickProperties_all(keys, data) == data
\* `for (key of definition.properties.keys()) if (hasOwn(data, key))
\*  properties.set(key, data[key])`
pickProperties(keys, data) == [key \in keys \cap DOMAIN data |-> data[key]]

\* A hydrator that leaves the eager entry out where the row has no field.
missingEager_tolerated(name) == Done(JsNull)
\* `throw new Error("Could not find eager property ...")`
missingEager(name) == Failed(<<"Could not find eager property", name>>)

\* A variant with the two ends exchanged.
relationshipEnds_swapped(direction, thisNode, otherNode) ==
    IF direction = DIRECTION_IN
    THEN [startNode |-> thisNode, endNode |-> otherNode]
    ELSE [startNode |-> otherNode, endNode |-> thisNode]
\* hydrateRelationship: `direction === IN ? otherNode : thisNode` is the
\* start and `direction === IN ? thisNode : otherNode` the end.
relationshipEnds(direction, thisNode, otherNode) ==
    IF direction = DIRECTION_IN
    THEN [startNode |-> otherNode, endNode |-> thisNode]
    ELSE [startNode |-> thisNode, endNode |-> otherNode]

RECURSIVE hydrateNode(_, _, _, _)
RECURSIVE hydrateEager(_, _, _, _)
RECURSIVE hydrateRelationship(_, _, _, _)

\* Factory.hydrateNode.  `at` stands for the Node object that is created:
\* the path of eager names and indexes that leads to it from the row.
hydrateNode(neode, record, definitionOrString, at) ==
    IF ~hasOwn(record, <<"identity">>) \/ Get(record, <<"identity">>).k # "int"
    THEN Failed(<<"No node identity found in record">>)
    ELSE
    LET identity == Get(record, <<"identity">>)
        given == Get(record, <<"properties">>)
        hydratedData0 == Spread(IF given.k = "object" THEN given.v ELSE EmptyObject,
                                EAGER_ID, identity)
        hydratedData ==
            IF hasOwn(record, <<"labels">>) /\ Get(record, <<"labels">>).k = "array"
            THEN Spread(hydratedData0, EAGER_LABELS, Get(record, <<"labels">>))
            ELSE hydratedData0
        labels == IF EAGER_LABELS \in DOMAIN hydratedData
                  THEN hydratedData[EAGER_LABELS] ELSE JsUndefined
        \* getByLabels sorts the array it is handed, the array of the row
        sorted(array) ==
            LET s == Array_sort([i \in 1..Len(array.v) |-> array.v[i].v])
            IN Array([i \in 1..Len(s) |-> String(s[i])])
        byLabels == definitionOrString = NoDefinition /\ IsTruthy(labels)
        definition ==
            IF byLabels THEN getByLabels(neode, labels)
            ELSE IF definitionOrString.t = "string"
            THEN IF definitionOrString.name \in Range(neode.names)
                 THEN definitionOrString.name ELSE NoModel
            ELSE IF definitionOrString.t = "Model" THEN definitionOrString.name
            ELSE NoModel
    IN IF definition = NoModel
       THEN Failed(<<"No model definition found for labels">>)
       ELSE
       LET eager == Model_eager(neode.models[definition])
           parts == [i \in 1..Len(eager) |-> hydrateEager(neode, record, eager[i], at)]
           failed == {i \in 1..Len(eager) : parts[i].threw}
       IN IF failed # {}
          THEN parts[CHOOSE i \in failed : \A j \in failed : i <= j]
          ELSE Done([t |-> "Node", at |-> at, model |-> definition,
                     identity |-> identity,
                     labels |-> IF labels.k \in {"undefined", "null"} THEN Array(<<>>)
                                ELSE IF byLabels /\ labels.k = "array"
                                THEN sorted(labels) ELSE labels,
                     properties |-> pickProperties(neode.properties[definition],
                                                   hydratedData),
                     eager |-> [name \in {eager[i].name : i \in 1..Len(eager)} |->
                                  parts[CHOOSE i \in 1..Len(eager) :
                                            eager[i].name = name].value]])

\* One round of the loop `for (const eager of definition.eager)`: the
\* value handed to node.setEager, or the Error thrown.
hydrateEager(neode, record, eager, at) ==
    LET name == eager.name
        value == Get(record, name)
        each(hydrated) ==
            IF \E i \in 1..Len(hydrated) : hydrated[i].threw
            THEN hydrated[CHOOSE i \in 1..Len(hydrated) :
                     /\ hydrated[i].threw
                     /\ \A j \in 1..(i - 1) : ~hydrated[j].threw]
            ELSE Done([t |-> IF eager.type = "nodes" THEN "NodeCollection"
                             ELSE "RelationshipCollection",
                       items |-> [i \in 1..Len(hydrated) |-> hydrated[i].value]])
    IN IF ~IsTruthy(value) THEN missingEager(name)
       ELSE IF eager.type = "node"
       THEN hydrateNode(neode, value, NoDefinition, Append(at, <<name, 0>>))
       ELSE IF eager.type = "relationship"
       THEN hydrateRelationship(neode, eager, value, Append(at, <<name, 0>>))
       ELSE IF value.k # "array"
       THEN Failed(<<"TypeError: map is not a function">>)
       ELSE IF eager.type = "nodes"
       THEN each([i \in 1..Len(value.v) |->
                    hydrateNode(neode, value.v[i], NoDefinition,
                                Append(at, <<name, i>>))])
       ELSE each([i \in 1..Len(value.v) |->
                    hydrateRelationship(neode, eager, value.v[i],
                                        Append(at, <<name, i>>))])

\* Factory.hydrateRelationship.  `at` is the place of the record below the
\* owning Node; the owning Node, which is still being built, is named by
\* its place, the other Node is the value hydrateNode returns.  A record
\* that is not an object has none of the fields read here, and the call
\* ends in the Error of hydrateNode.
hydrateRelationship(neode, definition, record, at) ==
    LET otherNode == hydrateNode(neode, Get(record, definition.nodeAlias),
                                 NoDefinition, at)
        thisNode == [t |-> "this", at |-> SubSeq(at, 1, Len(at) - 1)]
    IN IF otherNode.threw THEN otherNode
       ELSE Done([t |-> "Relationship", definition |-> definition.name,
                  identity |-> Get(record, EAGER_ID),
                  type |-> Get(record, EAGER_TYPE),
                  properties |-> pickProperties(definition.properties, record.v)]
                 @@ relationshipEnds(definition.direction, thisNode, otherNode.value))

\* A variant that leaves out the rows that cannot be hydrated.
hydrate_skipping(neode, records, definition) ==
    LET nodes == [i \in 1..Len(records) |->
                     hydrateNode(neode, records[i], definition, <<<<<<"row">>, i>>>>)]
        kept == SelectSeq(nodes, LAMBDA n : ~n.threw)
    IN Done([t |-> "NodeCollection", items |-> [i \in 1..Len(kept) |-> kept[i].value]])
\* Factory.hydrate on the values `row.get(alias)` of the records of a
\* result: the first Error thrown by hydrateNode ends the call.
hydrate(neode, records, definition) ==
    LET nodes == [i \in 1..Len(records) |->
                     hydrateNode(neode, records[i], definition, <<<<<<"row">>, i>>>>)]
    IN IF \E i \in 1..Len(nodes) : nodes[i].threw
       THEN nodes[CHOOSE i \in 1..Len(nodes) :
                     nodes[i].threw /\ \A j \in 1..(i - 1) : ~nodes[j].threw]
       ELSE Done([t |-> "NodeCollection", items |-> [i \in 1..Len(nodes) |-> nodes[i].value]])

\* Factory.hydrateFirst on the same values: undefined when there is no
\* first record or its value is not true.
hydrateFirst(neode, records, definition) ==
    IF records = <<>> \/ ~IsTruthy(records[1]) THEN Done(JsUndefined)
    ELSE hydrateNode(neode, records[1], definition, <<<<<<"row">>, 1>>>>)

(***************************************************************************)
(* Model construction and ModelMap.extend (unnamed/part_000, part_023)     *)
(*                                                                         *)
(* A schema is the sequence of its entries in the order of Object.entries: *)
(* [key, kind |-> "property", schema], [key, kind |-> "relationship", rel] *)
(* or the entry of the key "labels".                                       *)
(***************************************************************************)
PropertyEntry(key, type, primary) ==
    [key |-> key, kind |-> "property",
     schema |-> [type |-> type, primary |-> primary, protected |-> FALSE,
                 readonly |-> FALSE]]
RelationshipEntry(rel) == [key |-> rel.name, kind |-> "relationship", rel |-> rel]
LabelsEntry(labels) == [key |-> <<"labels">>, kind |-> "labels", labels |-> labels]

\* Object.assign({}, target, source) on schemas: a key of the source
\* replaces the value of the same key and keeps its place, a new key goes
\* last.
Object_assign(target, source) ==
    LET given(key) == \E j \in 1..Len(source) : source[j].key = key
        value(key) == source[CHOOSE j \in 1..Len(source) : source[j].key = key]
    IN [i \in 1..Len(target) |->
           IF given(target[i].key) THEN value(target[i].key) ELSE target[i]]
       \o SelectSeq(source, LAMBDA e : \A i \in 1..Len(target) : target[i].key # e.key)

\* new Model(neode, name, schema): the labels are [name] unless the schema
\* has the key labels; every other entry is added as a property or as a
\* relationship, in the order of the schema.  (The derived key lists are
\* left out.)
Model_new(name, schema) ==
    LET of(kind) == SelectSeq(schema, LAMBDA e : e.kind = kind)
    IN [name |-> name,
        schema |-> schema,
        labels |-> IF of("labels") = <<>> THEN <<<<name>>>>
                   ELSE Array_sort(of("labels")[1].labels),
        properties |-> [i \in 1..Len(of("property")) |->
                           ModelProperty(of("property")[i].key, of("property")[i].schema)
                           @@ [type |-> of("property")[i].schema.type]],
        relationships |-> [i \in 1..Len(of("relationship")) |-> of("relationship")[i].rel]]

\* Map.set(name, model) on the ModelMap.
ModelMap_set(map, name, model) ==
    [names |-> IF name \in Range(map.names) THEN map.names ELSE Append(map.names, name),
     models |-> [n \in DOMAIN map.models \cup {name} |->
                    IF n = name THEN model ELSE map.models[n]]]

\* ModelMap.extend(name, as, using).
ModelMap_extend(map, name, as, using) ==
    IF name \notin DOMAIN map.models THEN Failed(<<"Couldn't find a definition for", name>>)
    ELSE LET original == map.models[name]
             labels == Array_sort(Append(original.labels, <<as>>))
             schema == Object_assign(Object_assign(<<>>, original.schema), using)
             model == [Model_new(as, schema) EXCEPT !.labels = Array_sort(labels)]
         IN Done([map |-> ModelMap_set(map, as, model), model |-> model])

(***************************************************************************)
(* Initial states                                                          *)
(***************************************************************************)
\* The Builder before any call, and the Statement of a specification
\* that is not about Statements.
BuilderIdle == builder = NewBuilder /\ opened = FALSE /\ calls = <<>>
StatementIdle == st = Statement("MATCH") /\ addLog = <<>>
EagerIdle == models = NoModels /\ eagerOut = NoProjection

\* The variables of the compilers, which the Statement and Builder
\* specifications leave alone.
DeleteIdle == graph = {} /\ deleteOut = NoProjection
WriteIdle == payload = <<>> /\ wstack = <<>> /\ aliases = <<>> /\ wstatus = "idle"
BatchIdle == batch = [pc |-> "idle"]
compilerVars == <<eagerVars, deleteVars, writeVars, batch, factory>>
FactoryIdle == factory = [pc |-> "idle"]
CompilersIdle == EagerIdle /\ DeleteIdle /\ WriteIdle /\ BatchIdle /\ FactoryIdle

StatementInit ==
    /\ st \in {Statement("MATCH"), Statement("CREATE")}
    /\ addLog = <<>>
    /\ BuilderIdle
    /\ CompilersIdle

BuilderInit == BuilderIdle /\ StatementIdle /\ CompilersIdle

(***************************************************************************)
(* SpecStatement: any sequence of mutator calls on one Statement           *)
(***************************************************************************)
MaxClauses == 3          \* mutator calls made on one Statement

Added(s, what) ==
    /\ Len(addLog) < MaxClauses
    /\ st' = s
    /\ addLog' = Append(addLog, what)
    /\ UNCHANGED <<builderVars, compilerVars>>

\* One disjunct per mutator of Statement.
StatementNext ==
    \/ \E a \in {<<"a">>, <<"b">>} :
          Added(Statement_match(st, Match(a, NoModel, <<>>)), "match")
    \/ Added(Statement_relationship(st, "REL", "OUT", <<"a">>), "relationship")
    \/ \E w \in {WhereStatement("WHERE"),
                  WhereStatement_append(WhereStatement("WHERE"), WhereRaw(<<"x">>))} :
          Added(Statement_where(st, w), "where")
    \/ \E n \in 0..2 : Added(Statement_limit(st, n), "limit")
    \/ \E n \in 0..2 : Added(Statement_skip(st, n), "skip")
    \/ Added(Statement_order(st, Order(<<"a">>, "ASC")), "order")
    \/ \E a \in {<<"a">>, <<"b">>} : Added(Statement_delete(st, <<a>>), "delete")
    \/ \E v \in {<<>>, <<<<"a">>>>, <<<<"a">>, <<"b">>>>} :
          Added(Statement_detachDelete(st, v), "detachDelete")
    \/ Added(Statement_return(st, <<<<"a">>>>), "return")
    \/ Added(Statement_set(st, <<"a">>, setAlias(0), "="), "set")
    \/ Added(Statement_setRaw(st, <<Property(<<"a">>, setAlias(1), "=")>>), "setRaw")
    \/ Added(Statement_onCreateSet(st, <<"a">>, setAlias(0), "="), "onCreateSet")
    \/ Added(Statement_onMatchSet(st, <<"a">>, setAlias(0), "="), "onMatchSet")
    \/ Added(Statement_remove(st, <<<<"a">>>>), "remove")

SpecStatement == StatementInit /\ [][StatementNext]_vars

(***************************************************************************)
(* The Builder specifications: calls on one Builder, each logged with the  *)
(* table's names before the call, the parameters the call bound and        *)
(* whether it threw.                                                       *)
(***************************************************************************)
Call(max, op, r, binds) ==
    /\ Len(calls) < max
    /\ builder' = r.b
    /\ opened' = (opened \/ op \in {"match", "optionalMatch", "create", "merge", "with"})
    /\ calls' = Append(calls, [op |-> op, opened |-> opened, threw |-> r.threw,
                               before |-> DOMAIN builder.params,
                               binds |-> binds])
    /\ UNCHANGED <<stmtVars, compilerVars>>

\* The parameters an inline property map binds.
InlineBinds(alias, properties) ==
    [i \in 1..Len(properties) |->
        [name |-> property_alias(alias, properties[i].key),
         value |-> properties[i].value]]

\* The parameters bound by the conditions a where-family call appended:
\* the i-th new condition reads the parameter named after its "$".
WhereBinds(b, r, entries) ==
    LET old == IF IsSet(b.where) THEN Len(b.where.clauses) ELSE 0
    IN IF r.threw THEN <<>>
       ELSE [i \in 1..Len(entries) |->
                [name |-> Tail(r.b.where.clauses[old + i].right),
                 value |-> entries[i].value]]

(***************************************************************************)
(* SpecInline: match, create, merge and to with inline property maps       *)
(***************************************************************************)
MaxInlineCalls == 2

\* The (alias, properties) arguments tried.
InlineArgs ==
    [alias : {NoAlias, <<"a">>, <<"a", "_", "b">>},
     properties : {<<>>} \cup {<<[key |-> k, value |-> v]>> :
                       k \in {<<"c">>, <<"b", "_", "c">>}, v \in {"v1", "v2"}}]

InlineNext ==
    \/ \E x \in InlineArgs :
          Call(MaxInlineCalls, "match",
               Builder_match(builder, x.alias, "Person", x.properties),
               InlineBinds(x.alias, x.properties))
    \/ \E x \in InlineArgs :
          Call(MaxInlineCalls, "create",
               Builder_create(builder, x.alias, "Person", x.properties),
               InlineBinds(x.alias, x.properties))
    \/ \E x \in InlineArgs :
          Call(MaxInlineCalls, "merge",
               Builder_merge(builder, x.alias, "Person", x.properties),
               InlineBinds(x.alias, x.properties))
    \/ \E x \in InlineArgs :
          LET r == Builder_to(builder, x.alias, "Person", x.properties)
          IN Call(MaxInlineCalls, "to", r,
                  IF r.threw THEN <<>> ELSE InlineBinds(x.alias, x.properties))

SpecInline == BuilderInit /\ [][InlineNext]_vars

(***************************************************************************)
(* SpecWhere: the where family on a Builder                                *)
(***************************************************************************)
MaxWhereCalls == 3

\* The argument lists tried, with the conditions each would append.
WhereArgs ==
    LET WhereEntry(left, operator, value) ==
            [left |-> left, operator |-> operator, value |-> value]
    IN  {[form |-> "kv", left |-> l, value |-> v,
          entries |-> <<WhereEntry(l, "=", v)>>] :
            l \in {<<"a", ".", "name">>, <<"b", ".", "name">>}, v \in {"v1", Undefined}}
        \cup {[form |-> "kov", left |-> <<"a", ".", "name">>, operator |-> ">", value |-> "v2",
               entries |-> <<WhereEntry(<<"a", ".", "name">>, ">", "v2")>>]}
        \cup {[form |-> "object",
               entries |-> <<WhereEntry(<<"a", ".", "name">>, "=", "v1"),
                             WhereEntry(<<"A", ".", "name">>, "=", "v2")>>]}
        \cup {[form |-> "array",
               entries |-> <<WhereEntry(<<"a", ".", "name">>, "=", "v1"),
                             WhereEntry(<<"a", ".", "name">>, ">", "v2")>>]}
        \cup {[form |-> "raw", left |-> <<"x", "IS", "NULL">>, entries |-> <<>>]}
        \cup {[form |-> "none", entries |-> <<>>]}

WhereNext ==
    \/ Call(MaxWhereCalls, "match", Builder_match(builder, <<"a">>, "Person", <<>>), <<>>)
    \/ \E args \in WhereArgs :
          LET r == Builder_where(builder, args)
          IN Call(MaxWhereCalls, "where", r,
                  WhereBinds(builder, r, IF args.form = "raw" THEN <<>> ELSE args.entries))
    \/ \E args \in {a \in WhereArgs : a.form \in {"kv", "none"}} :
          Call(MaxWhereCalls, "whereNot", Builder_whereNot(builder, args), <<>>)
    \/ \E args \in {a \in WhereArgs : a.form = "kov"} :
          Call(MaxWhereCalls, "or", Builder_or(builder, args), <<>>)
    \/ \E v \in {"v1", Undefined} :
          Call(MaxWhereCalls, "whereId", Builder_whereId(builder, <<"a">>, v), <<>>)
    \/ Call(MaxWhereCalls, "whereRaw", Builder_whereRaw(builder, <<"x", "IS", "NULL">>), <<>>)
    \/ Call(MaxWhereCalls, "whereBetween",
            Builder_whereBetween(builder, <<"a", ".", "age">>, "v1", "v2"), <<>>)
    \/ Call(MaxWhereCalls, "whereNotBetween",
            Builder_whereNotBetween(builder, <<"a", ".", "age">>, "v1", "v2"), <<>>)

SpecWhere == BuilderInit /\ [][WhereNext]_vars

(***************************************************************************)
(* SpecMisuse: every public method, on a Builder with or without an open   *)
(* pattern                                                                 *)
(***************************************************************************)
MaxMisuseCalls == 2

\* The arguments tried for set, onCreateSet and onMatchSet, and for orderBy.
MisuseArgs ==
    [set |-> {[form |-> "map", entries |-> <<>>],
              [form |-> "map", entries |-> <<[key |-> <<"a", ".", "x">>, value |-> "v1"]>>],
              [form |-> "kv", key |-> <<"a", ".", "x">>, value |-> "v1"],
              [form |-> "kv", key |-> <<"a", ".", "x">>, value |-> Undefined]},
     orderBy |-> {[form |-> "pair", key |-> <<"a", ".", "x">>, value |-> "DESC"],
                  [form |-> "single", key |-> <<"a", ".", "x">>, value |-> ""],
                  [form |-> "object", entries |-> <<>>],
                  [form |-> "object",
                   entries |-> <<[key |-> <<"a", ".", "x">>, value |-> "ASC"]>>],
                  [form |-> "none"]},
     where |-> {a \in WhereArgs :
                   \/ a.form = "none"
                   \/ a.form = "kv" /\ a.left = <<"a", ".", "name">> /\ a.value = "v1"},
     items |-> {<<>>, <<<<"a">>>>}]

Misuse(op, r) == Call(MaxMisuseCalls, op, r, <<>>)

MisuseNext ==
    \/ Misuse("match", Builder_match(builder, <<"a">>, "Person", <<>>))
    \/ Misuse("optionalMatch", Builder_optionalMatch(builder, <<"a">>, "Person"))
    \/ Misuse("create", Builder_create(builder, <<"a">>, "Person", <<>>))
    \/ Misuse("merge", Builder_merge(builder, <<"a">>, "Person", <<>>))
    \/ Misuse("with", Builder_with(builder, <<<<"a">>>>))
    \/ Misuse("withDistinct", Builder_withDistinct(builder, <<<<"a">>>>))
    \/ \E args \in {a \in MisuseArgs.where : a.form = "kv"} :
          Misuse("or", Builder_or(builder, args))
    \/ Misuse("build", Builder_build(builder))
    \/ \E args \in MisuseArgs.where : Misuse("where", Builder_where(builder, args))
    \/ \E args \in MisuseArgs.where : Misuse("whereNot", Builder_whereNot(builder, args))
    \/ Misuse("whereBetween",
              Builder_whereBetween(builder, <<"a", ".", "age">>, "v1", "v2"))
    \/ Misuse("whereId", Builder_whereId(builder, <<"a">>, "v1"))
    \/ Misuse("whereRaw", Builder_whereRaw(builder, <<"x", "IS", "NULL">>))
    \/ \E args \in MisuseArgs.set : Misuse("set", Builder_set(builder, args))
    \/ \E args \in MisuseArgs.set : Misuse("onCreateSet", Builder_onCreateSet(builder, args))
    \/ \E args \in MisuseArgs.set : Misuse("onMatchSet", Builder_onMatchSet(builder, args))
    \/ \E items \in MisuseArgs.items : Misuse("remove", Builder_remove(builder, items))
    \/ \E items \in MisuseArgs.items : Misuse("delete", Builder_delete(builder, items))
    \/ \E items \in MisuseArgs.items :
          Misuse("detachDelete", Builder_detachDelete(builder, items))
    \/ \E items \in MisuseArgs.items : Misuse("return", Builder_return(builder, items))
    \/ \E args \in MisuseArgs.orderBy : Misuse("orderBy", Builder_orderBy(builder, args))
    \/ \E n \in 0..1 : Misuse("limit", Builder_limit(builder, n))
    \/ \E n \in 0..1 : Misuse("skip", Builder_skip(builder, n))

SpecMisuse == BuilderInit /\ [][MisuseNext]_vars

(***************************************************************************)
(* SpecEager: a schema is declared, then a find compiles its projection    *)
(***************************************************************************)
MaxRelationships == 3    \* RelationshipTypes declared in the whole schema
DIRECTION_OUT == "DIRECTION_OUT"

\* The eager declarations of all four shapes, and one that is not eager.
EagerDeclarations ==
    {RelationshipType(n, t, "REL", DIRECTION_OUT, target, TRUE, "false", <<"node">>) :
        n \in {<<"r">>, <<"s">>},
        t \in {"node", "nodes", "relationship", "relationships"},
        target \in {"A", "B", "Missing"}}
    \cup {RelationshipType(n, "node", "REL", DIRECTION_OUT, "A", FALSE, "false", <<"node">>) :
        n \in {<<"r">>, <<"s">>}}

Declared(ms) == Len(ms["A"]) + Len(ms["B"])

\* Two Models registered with schemas that declare no relationship, and a
\* graph that holds the root entity.
SchemaInit ==
    /\ models = Neode_define(Neode_define(NoModels, "A"), "B")
    /\ eagerOut = NoProjection
    /\ graph = {0}
    /\ deleteOut = NoProjection
    /\ BuilderIdle
    /\ StatementIdle
    /\ WriteIdle
    /\ BatchIdle
    /\ FactoryIdle

EagerNext ==
    \* Model.relationship(...): the schema is declared before the first find
    \/ \E m \in DOMAIN models, rel \in EagerDeclarations :
          /\ ~IsSet(eagerOut)
          /\ Declared(models) < MaxRelationships
          /\ models' = [models EXCEPT ![m] = Model_relationship(@, rel)]
          /\ UNCHANGED <<eagerOut, deleteVars, stmtVars, builderVars, writeVars, batch, factory>>
    \* FindAll, FindById, First, Create: eagerNode(neode, 1, "this", model)
    \/ \E m \in DOMAIN models :
          /\ ~IsSet(eagerOut)
          /\ eagerOut' = eagerNode(models, 1, <<"this">>, m)
          /\ UNCHANGED <<models, deleteVars, stmtVars, builderVars, writeVars, batch, factory>>

SpecEager == SchemaInit /\ [][EagerNext]_vars

(***************************************************************************)
(* SpecDelete: a schema is declared, a chain of entities is created, and   *)
(* the root is deleted                                                     *)
(***************************************************************************)
MaxChain == 11           \* entities below the root
MaxCascades == 2         \* RelationshipTypes declared in the whole schema

\* The declarations of a relationship r with every cascade policy, and of
\* a second relationship s that cascades the delete.
CascadeDeclarations ==
    {RelationshipType(<<"r">>, "node", "REL", DIRECTION_OUT, target, FALSE, cascade, <<"node">>) :
        target \in {"A", "B", "Missing"}, cascade \in {"DELETE", "DETACH", "false"}}
    \cup {RelationshipType(<<"s">>, "node", "REL", DIRECTION_OUT, "B", FALSE, "DELETE", <<"node">>)}

DeleteNext ==
    \* Model.relationship(...)
    \/ \E m \in DOMAIN models, rel \in CascadeDeclarations :
          /\ ~IsSet(deleteOut)
          /\ Declared(models) < MaxCascades
          /\ models' = [models EXCEPT ![m] = Model_relationship(@, rel)]
          /\ UNCHANGED <<eagerOut, deleteVars, stmtVars, builderVars, writeVars, batch, factory>>
    \* one more entity is created and related to the end of the chain
    \/ /\ ~IsSet(deleteOut)
       /\ Cardinality(graph) <= MaxChain
       /\ graph' = graph \cup {Cardinality(graph)}
       /\ UNCHANGED <<deleteOut, eagerVars, stmtVars, builderVars, writeVars, batch, factory>>
    \* Node.delete(toDepth = 10) on the root: DeleteNode, then builder.execute
    \/ \E toDepth \in {1, DeleteNode_MAX_EAGER_DEPTH} :
          LET r == DeleteNode(models, ToString(0), "A", toDepth)
              x == Cypher_execute(Builder_query(r.b), r.b.params, graph)
          IN /\ ~IsSet(deleteOut)
             /\ deleteOut' = [t |-> "delete", toDepth |-> toDepth, before |-> graph,
                              threw |-> r.threw,
                              query |-> IF r.threw THEN <<>> ELSE Builder_query(r.b),
                              rejected |-> ~r.threw /\ x.rejected]
             /\ graph' = IF r.threw THEN graph ELSE x.graph
             /\ UNCHANGED <<eagerVars, stmtVars, builderVars, writeVars, batch, factory>>

SpecDelete == SchemaInit /\ [][DeleteNext]_vars

(***************************************************************************)
(* SpecWrite: Create / MergeOn compile a payload with addNodeToStatement   *)
(***************************************************************************)
Over == 2                \* how far a payload goes beyond MAX_CREATE_DEPTH

\* The writes tried, as <<payload, mode>>.  Every object of a payload holds
\* its primary key; n is the number of nested entities.
Writes ==
    LET S == [k |-> "scalar", v |-> "v1"]
        Bag(i) == [k |-> "bag", v |-> i]
        leaf == (<<"id">> :> S) @@ (<<"name">> :> [k |-> "scalar", v |-> "v2"])
        with(key, value) == (<<"id">> :> S) @@ (key :> value)
        small == {0, 1, 2}
        sizes == small \cup ((MAX_CREATE_DEPTH - 1)..(MAX_CREATE_DEPTH + Over))
        \* a chain of n entities nested through the single-node relationship
        chain(n) == [i \in 0..n |-> IF i < n THEN with(<<"child">>, Bag(i + 1)) ELSE leaf]
        \* n sibling property bags, primary keys or Node instances
        bags(n) == [i \in 0..n |->
                       IF i = 0
                       THEN with(<<"children">>, [k |-> "array", v |-> [j \in 1..n |-> Bag(j)]])
                       ELSE leaf]
        keys(n) == [i \in {0} |->
                       with(<<"children">>, [k |-> "array", v |-> [j \in 1..n |-> S]])]
        nodes(n) == [i \in {0} |->
                       with(<<"children">>,
                            [k |-> "array", v |-> [j \in 1..n |-> [k |-> "node", v |-> "v2"]]])]
        \* an object that is its own child
        cycle == [i \in {0} |-> with(<<"child">>, Bag(0))]
        \* relationships with a map that holds the other node
        link == [i \in 0..2 |->
                    CASE i = 0 -> with(<<"link">>, Bag(1))
                      [] i = 1 -> (<<"node">> :> Bag(2))
                      [] i = 2 -> leaf]
        links == [i \in {0, 1} |->
                    IF i = 0 THEN with(<<"links">>, [k |-> "array", v |-> <<Bag(1), Bag(1)>>])
                    ELSE (<<"node">> :> Bag(0))]
        \* a child given as an object without a key
        empty == [i \in {0, 1} |-> IF i = 0 THEN with(<<"child">>, Bag(1)) ELSE <<>>]
        \* a relationship map inside a nested property bag
        nested == [i \in 0..2 |->
                      CASE i = 0 -> with(<<"child">>, Bag(1))
                        [] i = 1 -> with(<<"link">>, Bag(2))
                        [] i = 2 -> (<<"node">> :> S)]
        both == {chain(n) : n \in small} \cup {bags(n) : n \in sizes}
                \cup {keys(n) : n \in sizes} \cup {nodes(n) : n \in {1, 2}}
                \cup {link, links, empty, nested}
    IN (both \X {"create", "merge"})
       \cup {<<chain(MAX_CREATE_DEPTH + Over), "create">>, <<cycle, "merge">>}

\* One Model whose four relationships, one of each shape, point back at it.
WriteInit ==
    /\ models = [m \in {"A"} |->
          <<RelationshipType(<<"child">>, "node", "REL", DIRECTION_OUT, "A", FALSE, "false", <<"node">>),
            RelationshipType(<<"children">>, "nodes", "REL", DIRECTION_OUT, "A", FALSE, "false", <<"node">>),
            RelationshipType(<<"link">>, "relationship", "REL", DIRECTION_OUT, "A", FALSE, "false", <<"node">>),
            RelationshipType(<<"links">>, "relationships", "REL", DIRECTION_OUT, "A", FALSE, "false", <<"node">>)>>]
    /\ eagerOut = NoProjection
    /\ DeleteIdle
    /\ BuilderIdle
    /\ StatementIdle
    /\ WriteIdle
    /\ BatchIdle
    /\ FactoryIdle

WriteFrame == UNCHANGED <<stmtVars, opened, calls, eagerVars, deleteVars, batch, factory>>

WriteNext ==
    \* Create(neode, model, properties) and MergeOn: a new Builder and
    \* addNodeToStatement(neode, builder, "this", model, properties, ["this"], mode)
    \/ \E w \in Writes :
          /\ wstatus = "idle"
          /\ payload' = w[1]
          /\ wstack' = <<Frame(ORIGINAL_ALIAS, "A",
                               GenerateDefaultValues(models, "A", w[1][0]), w[2], NoFrame)>>
          /\ aliases' = <<ORIGINAL_ALIAS>>
          /\ builder' = NewBuilder
          /\ wstatus' = "running"
          /\ WriteFrame
    \* addNodeToStatement is entered: properties, alias, pattern head
    \/ /\ wstatus = "running"
       /\ ~Head(wstack).entered
       /\ \E h \in {addNodeToStatement_head(builder, aliases, Head(wstack))} :
             /\ builder' = h.b
             /\ aliases' = h.aliases
             /\ wstack' = IF h.threw THEN <<>>
                          ELSE <<[Head(wstack) EXCEPT !.entered = TRUE]>> \o Tail(wstack)
             /\ wstatus' = IF h.threw THEN "threw" ELSE "running"
       /\ UNCHANGED payload
       /\ WriteFrame
    \* the loop over model.relationships: the next value of the payload
    \/ /\ wstatus = "running"
       /\ Head(wstack).entered
       /\ Head(wstack).rel <= Len(models[Head(wstack).model])
       /\ LET f == Head(wstack)
              mode == f.mode
              relationship == models[f.model][f.rel]
              key == relationship.name
              plural == relationship.type \in {"relationships", "nodes"}
              value == f.properties[key]
              valueArray == IF plural /\ value.k = "array" THEN value.v ELSE <<value>>
              suffix == IF plural THEN <<ToString(f.idx)>> ELSE <<>>
              relAlias == f.alias \o <<"_">> \o key \o <<"_", "rel">> \o suffix
              targetAlias == f.alias \o <<"_">> \o key \o <<"_", "node">> \o suffix
              more == f.idx + 1 < Len(valueArray)
              next == IF more THEN [f EXCEPT !.idx = @ + 1]
                      ELSE [f EXCEPT !.rel = @ + 1, !.idx = 0]
              skip == [f EXCEPT !.rel = @ + 1, !.idx = 0]
          IN IF key \notin DOMAIN f.properties
             THEN /\ wstack' = <<skip>> \o Tail(wstack)
                  /\ UNCHANGED <<builder, payload, wstatus>>
             ELSE \* builder.with(...aliases), once for the key
                  \E w \in {IF f.idx = 0 THEN Builder_with(builder, aliases)
                             ELSE Res(builder)} :
                  IF w.threw
                  THEN /\ wstack' = <<>> /\ wstatus' = "threw" /\ builder' = w.b
                       /\ UNCHANGED payload
                  ELSE IF valueArray = <<>>
                  THEN /\ wstack' = <<skip>> \o Tail(wstack)
                       /\ builder' = w.b
                       /\ UNCHANGED <<payload, wstatus>>
                  ELSE \E x \in {IF relationship.type \in {"relationship", "relationships"}
                                  THEN addRelationshipToStatement(models, w.b, payload,
                                           f.alias, relAlias, targetAlias, relationship,
                                           valueArray[f.idx + 1], aliases, mode)
                                  ELSE addNodeRelationshipToStatement(models, w.b, payload,
                                           f.alias, relAlias, targetAlias, relationship,
                                           valueArray[f.idx + 1], aliases, mode)
                                       @@ [heap |-> payload]} :
                       /\ builder' = x.b
                       /\ payload' = x.heap
                       /\ wstatus' = IF x.kind = "threw" THEN "threw" ELSE "running"
                       /\ wstack' = CASE x.kind = "threw" -> <<>>
                                      [] x.kind = "call" -> <<x.frame, next>> \o Tail(wstack)
                                      [] OTHER -> <<next>> \o Tail(wstack)
       /\ UNCHANGED aliases
       /\ WriteFrame
    \* addNodeToStatement returns; its caller creates the relationship
    \/ /\ wstatus = "running"
       /\ Head(wstack).entered
       /\ Head(wstack).rel > Len(models[Head(wstack).model])
       /\ \E f \in {Head(wstack)} :
          \E r \in {IF IsSet(f.after)
                     THEN createRelationship(builder, f.after.alias, f.after.relAlias,
                              f.after.targetAlias, f.after.relationship, f.mode)
                     ELSE Res(builder)} :
             /\ builder' = r.b
             /\ wstack' = IF r.threw THEN <<>> ELSE Tail(wstack)
             /\ wstatus' = IF r.threw THEN "threw"
                           ELSE IF Tail(wstack) = <<>> THEN "done" ELSE "running"
       /\ UNCHANGED <<payload, aliases>>
       /\ WriteFrame

SpecWrite == WriteInit /\ [][WriteNext]_vars

(***************************************************************************)
(* SpecBatch: Neode.batch(queries) and the transaction it runs in          *)
(***************************************************************************)
MaxQueries == 3

\* Lists of distinct queries, up to MaxQueries of them.
QueryLists ==
    {q \in UNION {[1..n -> 1..MaxQueries] : n \in 0..MaxQueries} :
        \A i, j \in DOMAIN q : q[i] = q[j] => i = j}

BatchInit ==
    /\ models = NoModels
    /\ EagerIdle
    /\ DeleteIdle
    /\ BuilderIdle
    /\ StatementIdle
    /\ WriteIdle
    /\ BatchIdle
    /\ FactoryIdle

BatchFrame == UNCHANGED <<stmtVars, builderVars, eagerVars, deleteVars, writeVars, factory>>

BatchNext ==
    \* batch(undefined): `if (!queries) return Promise.resolve([])`
    \/ /\ batch.pc = "idle"
       /\ batch' = [pc |-> "done", given |-> FALSE, queries |-> <<>>, run |-> <<>>,
                    promises |-> <<>>, arrival |-> <<>>, sessions |-> 0, closed |-> 0,
                    commit |-> "none", rollback |-> "none", store |-> {},
                    outcome |-> [threw |-> FALSE, value |-> <<>>]]
       /\ BatchFrame
    \* batch(queries): a session, beginTransaction, queries.map(tx.run),
    \* and the await of Promise.allSettled
    \/ \E queries \in QueryLists :
          /\ batch.pc = "idle"
          /\ batch' = [pc |-> "allSettled", given |-> TRUE, queries |-> queries,
                       run |-> queries,
                       promises |-> [i \in 1..Len(queries) |-> [status |-> "pending"]],
                       arrival |-> <<>>, sessions |-> 1, closed |-> 0,
                       commit |-> "none", rollback |-> "none", store |-> {},
                       outcome |-> [threw |-> FALSE, value |-> <<>>]]
          /\ BatchFrame
    \* the database settles one of the queries
    \/ \E i \in 1..MaxQueries, ok \in BOOLEAN :
          /\ batch.pc = "allSettled"
          /\ i \in DOMAIN batch.promises
          /\ batch.promises[i].status = "pending"
          /\ batch' = [batch EXCEPT
                 !.promises[i] =
                     IF ok THEN [status |-> "fulfilled", value |-> <<"result", batch.run[i]>>]
                     ELSE [status |-> "rejected", reason |-> <<"error", batch.run[i]>>],
                 !.arrival = Append(@, i)]
          /\ BatchFrame
    \* every query has settled: the callback returns or throws, and
    \* transaction goes on to `await tx.commit()` or to `await tx.rollback()`
    \/ /\ batch.pc = "allSettled"
       /\ \A i \in DOMAIN batch.promises : batch.promises[i].status # "pending"
       /\ \E r \in {batch_body(Promise_allSettled(batch.promises, batch.arrival))} :
             batch' = [batch EXCEPT
                 !.pc = IF r.threw THEN "rollback" ELSE "commit",
                 !.commit = IF r.threw THEN @ ELSE "invoked",
                 !.rollback = IF r.threw THEN "invoked" ELSE @,
                 !.outcome = r]
       /\ BatchFrame
    \* tx.commit() settles; a rejection takes transaction to its catch block
    \/ \E ok \in BOOLEAN :
          /\ batch.pc = "commit"
          /\ batch' = [batch EXCEPT
                 !.pc = IF ok THEN "close" ELSE "rollback",
                 !.commit = IF ok THEN "fulfilled" ELSE "rejected",
                 !.rollback = IF ok THEN @ ELSE "invoked",
                 !.store = IF ok THEN Range(batch.run) ELSE @,
                 !.outcome = IF ok THEN @
                             ELSE [threw |-> TRUE, error |-> [t |-> "Error", from |-> "commit"]]]
          /\ BatchFrame
    \* tx.rollback() settles; `throw error` is reached only when it is fulfilled
    \/ \E ok \in BOOLEAN :
          /\ batch.pc = "rollback"
          /\ batch' = [batch EXCEPT
                 !.pc = "close",
                 !.rollback = IF ok THEN "fulfilled" ELSE "rejected",
                 !.outcome = IF ok THEN @
                             ELSE [threw |-> TRUE, error |-> [t |-> "Error", from |-> "rollback"]]]
          /\ BatchFrame
    \* finally: `await session.close()`, and the call settles
    \/ /\ batch.pc = "close"
       /\ batch' = [batch EXCEPT !.pc = "done", !.closed = @ + 1]
       /\ BatchFrame

SpecBatch == BatchInit /\ [][BatchNext]_vars

(***************************************************************************)
(* SpecHydrate: a schema is declared, and the rows of a result are handed  *)
(* to the hydrator                                                         *)
(***************************************************************************)
MaxRecords == 2          \* records of a result that holds several

\* The Models that can be registered: their labels as the schema gives
\* them, and their declared property keys.
ModelLabels ==
    [m \in {"A", "B", "C"} |->
        CASE m = "A" -> <<<<"A">>>>
          [] m = "B" -> <<<<"B">>, <<"A">>>>
          [] m = "C" -> <<<<"A", ":", "B">>>>]
ModelProperties ==
    [m \in {"A", "B", "C"} |->
        IF m = "A" THEN {<<"id">>, <<"name">>} ELSE {<<"id">>}]

\* The declarations of the relationships r and s of a Model: r eager, in
\* every shape and direction, and s not eager.
HydrateDeclarations ==
    {RelationshipType(<<"r">>, t, "REL", d, "A", TRUE, "false", <<"node">>)
        @@ [properties |-> {<<"since">>}] :
        t \in {"node", "nodes", "relationship", "relationships"},
        d \in {DIRECTION_IN, DIRECTION_OUT}}
    \cup {RelationshipType(<<"s">>, "node", "REL", DIRECTION_OUT, "B", FALSE, "false", <<"node">>)
          @@ [properties |-> {}]}

\* `{...row, [key]: value}`
With(row, key, value) == Object(Spread(row.v, key, value))
Label(l) == String(l)

\* The values `row.get(alias)` of the records of a result: the Node
\* objects of the driver, with and without the fields of the eager
\* relationships, and the maps a projection returns.
Rows ==
    LET native(identity, labels, properties) ==
            Object((<<"identity">> :> Integer(identity)) @@ (<<"labels">> :> Array(labels))
                   @@ (<<"properties">> :> Object(properties)))
        bagA == (<<"id">> :> Integer(1)) @@ (<<"name">> :> String(<<"x">>))
                @@ (<<"extra">> :> String(<<"e">>)) @@ (EAGER_TYPE :> String(<<"t">>))
        bagB == (<<"id">> :> Integer(2))
        nodeA == native(1, <<Label(<<"A">>)>>, bagA)
        nodeBA == native(2, <<Label(<<"B">>), Label(<<"A">>)>>, bagB)
        nodeAB == native(3, <<Label(<<"A">>), Label(<<"B">>)>>, bagB)
        nodeD == native(4, <<Label(<<"D">>)>>, bagB)
        unlabelled == Object((<<"identity">> :> Integer(5))
                             @@ (<<"properties">> :> Object(bagB)))
        projected == Object(bagB @@ (EAGER_ID :> String(<<"4:x:6">>))
                            @@ (EAGER_LABELS :> Array(<<Label(<<"A">>)>>)))
        leaves == {nodeA, nodeBA, nodeAB, nodeD, unlabelled, projected}
        inner == {nodeA, nodeBA, nodeAB, projected, With(nodeA, <<"r">>, Array(<<>>)),
                  With(nodeA, <<"r">>, nodeBA), With(nodeA, <<"r">>, JsNull)}
        link(other) == Object((EAGER_ID :> Integer(7)) @@ (EAGER_TYPE :> String(<<"REL">>))
                              @@ (<<"since">> :> Integer(8))
                              @@ (<<"extra">> :> String(<<"e">>))
                              @@ (<<"node">> :> other))
        links == {link(nodeBA), link(nodeAB), link(projected),
                  Object((EAGER_ID :> Integer(7)) @@ (EAGER_TYPE :> String(<<"REL">>)))}
        values == {JsNull, Array(<<>>)} \cup inner \cup links
                  \cup {Array(<<v>>) : v \in inner \cup links}
                  \cup {Array(<<nodeBA, nodeAB>>), Array(<<nodeBA, projected>>),
                        Array(<<link(nodeBA), link(nodeAB)>>)}
        withR == {With(nodeA, <<"r">>, v) : v \in values}
    IN leaves \cup withR \cup {With(nodeBA, <<"r">>, v) : v \in values}
       \cup {With(row, <<"s">>, nodeBA) : row \in withR \cup {nodeA}}

\* The results handed over: none, one or MaxRecords records.
Results ==
    {<<>>} \cup {<<row>> : row \in Rows}
    \cup {rows \in [1..MaxRecords -> {row \in Rows : DOMAIN row.v \cap {<<"r">>, <<"s">>} = {}}] : TRUE}

\* The parameter `definition`: left out, a name, registered or not, or a
\* registered Model.
Definitions ==
    {NoDefinition, [t |-> "string", name |-> "A"], [t |-> "string", name |-> "Missing"],
     [t |-> "Model", name |-> factory.names[1]]}

\* The registry as the hydrator reads it.
Registry == [names |-> factory.names, labels |-> factory.labels,
             properties |-> factory.properties, models |-> models]

\* Two Models registered, in either of three ways, with schemas that
\* declare no relationship.
HydrateInit ==
    /\ \E names \in {<<"A", "B">>, <<"C", "A">>} :
          /\ models = [m \in Range(names) |-> <<>>]
          /\ factory = [pc |-> "ready", names |-> names,
                        labels |-> [m \in Range(names) |-> Array_sort(ModelLabels[m])],
                        properties |-> [m \in Range(names) |-> ModelProperties[m]]]
    /\ eagerOut = NoProjection
    /\ DeleteIdle
    /\ BuilderIdle
    /\ StatementIdle
    /\ WriteIdle
    /\ BatchIdle

HydrateFrame == UNCHANGED <<stmtVars, builderVars, eagerOut, deleteVars, writeVars, batch>>

HydrateNext ==
    \* Model.relationship(...): the schema is declared before the first call
    \/ \E m \in DOMAIN models, rel \in HydrateDeclarations :
          /\ factory.pc = "ready"
          /\ \A i \in 1..Len(models[m]) : models[m][i].name # rel.name
          /\ m = "A" \/ (rel.type = "node" /\ rel.direction = DIRECTION_OUT /\ rel.eager)
          /\ models' = [models EXCEPT ![m] = Model_relationship(@, rel)]
          /\ UNCHANGED factory
          /\ HydrateFrame
    \* Neode.hydrate(result, alias, definition)
    \/ \E records \in Results, definition \in Definitions :
          /\ factory.pc = "ready"
          /\ factory' = [factory EXCEPT !.pc = "called"]
                        @@ [call |-> "hydrate", records |-> records,
                            definition |-> definition,
                            out |-> hydrate(Registry, records, definition)]
          /\ UNCHANGED models
          /\ HydrateFrame
    \* Neode.hydrateFirst(result, alias)
    \/ \E records \in Results :
          /\ factory.pc = "ready"
          /\ factory' = [factory EXCEPT !.pc = "called"]
                        @@ [call |-> "hydrateFirst", records |-> records,
                            definition |-> NoDefinition,
                            out |-> hydrateFirst(Registry, records, NoDefinition)]
          /\ UNCHANGED models
          /\ HydrateFrame

SpecHydrate == HydrateInit /\ [][HydrateNext]_vars

(***************************************************************************)
(* SpecEntity: entities are created, merged and found, and the rows the    *)
(* database returns for the compiled projection are hydrated               *)
(*                                                                         *)
(* The database is [nodes, edges]: the nodes in the order of their         *)
(* identities, each with its labels and properties, and the pairs          *)
(* <<from, to>> of the relationships, all of type REL.                     *)
(***************************************************************************)
MaxCalls == 2            \* service calls in a run
ChainLengths == {0, MAX_EAGER_DEPTH + 2}

\* MERGE / CREATE (alias:Labels {inline}) ON CREATE SET ... SET ...: the
\* node the alias is bound to, and the database after the write.
Cypher_write(statement, params, labels, db) ==
    LET head == statement.pattern[1]
        value(p) == String(<<params[p.param]>>)
        inline == [key \in {p.property : p \in Range(head.properties)} |->
                      value(CHOOSE p \in Range(head.properties) : p.property = key)]
        wanted == IF head.model = NoModel THEN <<>> ELSE labels[head.model]
        hits == {n \in 1..Len(db.nodes) :
                    /\ Range(wanted) \subseteq Range(db.nodes[n].labels)
                    /\ \A key \in DOMAIN inline :
                          /\ key \in DOMAIN db.nodes[n].properties
                          /\ db.nodes[n].properties[key] = inline[key]}
        created == statement.prefix = "CREATE" \/ hits = {}
        n == IF created THEN Len(db.nodes) + 1 ELSE CHOOSE h \in hits : \A o \in hits : h <= o
        sets == (IF created THEN statement.on_create_set ELSE statement.on_match_set)
                \o statement.set
        keyOf(p) == SubSeq(p.property, Len(head.alias) + 2, Len(p.property))
        before == IF created THEN inline ELSE db.nodes[n].properties
        after == [key \in DOMAIN before \cup {keyOf(sets[i]) : i \in 1..Len(sets)} |->
                     IF \E i \in 1..Len(sets) : keyOf(sets[i]) = key
                     THEN value(sets[CHOOSE i \in 1..Len(sets) :
                                   /\ keyOf(sets[i]) = key
                                   /\ \A j \in (i + 1)..Len(sets) : keyOf(sets[j]) # key])
                     ELSE before[key]]
    IN [node |-> n,
        db |-> [db EXCEPT !.nodes =
                   IF created THEN Append(@, [labels |-> wanted, properties |-> after])
                   ELSE [@ EXCEPT ![n].properties = after]]]

\* RETURN <projection>: the map the database builds for the node n.  A
\* pattern comprehension lists the matches in the order of the
\* identities; [0] of an empty list is null.
RECURSIVE Cypher_project(_, _, _, _)
Cypher_project(labels, tree, db, n) ==
    IF tree.t = "relationship"
    THEN Object((EAGER_ID :> String(<<"5:", ToString(n)>>))
                @@ (EAGER_TYPE :> String(<<"REL">>))
                @@ (tree.nodeAlias :> Cypher_project(labels, tree.node, db, n)))
    ELSE LET matches(p) ==
                 SelectSeq([m \in 1..Len(db.nodes) |-> m], LAMBDA m :
                     /\ (IF p.direction = DIRECTION_IN THEN <<m, n>> ELSE <<n, m>>) \in db.edges
                     /\ p.target # NoModel =>
                           Range(labels[p.target]) \subseteq Range(db.nodes[m].labels))
             listed(p) == LET found == matches(p)
                              projected == [m \in Range(found) |->
                                               Cypher_project(labels, p.fields, db, m)]
                          IN [i \in 1..Len(found) |-> projected[found[i]]]
             field(p) == IF ~p.first THEN Array(listed(p))
                         ELSE IF listed(p) = <<>> THEN JsNull ELSE listed(p)[1]
             names == {tree.eager[i].name : i \in 1..Len(tree.eager)}
             properties == db.nodes[n].properties
         IN Object([key \in DOMAIN properties \cup {EAGER_ID, EAGER_LABELS} \cup names |->
                IF key \in names
                THEN field(tree.eager[CHOOSE i \in 1..Len(tree.eager) :
                               /\ tree.eager[i].name = key
                               /\ \A j \in (i + 1)..Len(tree.eager) :
                                     tree.eager[j].name # key])
                ELSE IF key = EAGER_ID THEN String(<<"4:", ToString(n)>>)
                ELSE IF key = EAGER_LABELS
                THEN Array([i \in 1..Len(db.nodes[n].labels) |->
                               String(db.nodes[n].labels[i])])
                ELSE properties[key]])

\* Create and MergeOn for a bag of scalars: the defaults, the compiled
\* write, its execution, and hydrateFirst(result, alias) on the row of the
\* projection eagerNode(neode, 1, "this", model).
WriteEntity(neode, mode, model, properties, db) ==
    LET compiled(validated) ==
            addNodeToStatement_head(NewBuilder, <<ORIGINAL_ALIAS>>,
                Frame(ORIGINAL_ALIAS, model, validated, mode, NoFrame)).b
        written(validated, b) ==
            [validated |-> validated]
            @@ Cypher_write(Builder_build(b).b.statements[1], b.params, neode.labels, db)
        returned(w, output) ==
            [call |-> mode, given |-> properties, validated |-> w.validated, db |-> w.db,
             node |-> w.node, rows |-> <<Cypher_project(neode.labels, output, w.db, w.node)>>]
        result(x) == x @@ [out |-> hydrateFirst(neode, x.rows, NoDefinition)]
    IN CHOOSE call \in
           {result(x) : x \in
               {returned(w, output) :
                   w \in UNION {{written(validated, b) : b \in {compiled(validated)}} :
                             validated \in {GenerateDefaultValues(neode.models, model, properties)}},
                   output \in {eagerNode(neode.models, 1, ORIGINAL_ALIAS, model)}}} : TRUE

\* FindAll(neode, model): MATCH (this:Labels) RETURN the projection, and
\* hydrate(result, alias).
FindAll(neode, model, db) ==
    LET matched(n) == Range(neode.labels[model]) \subseteq Range(db.nodes[n].labels)
        returned(output) ==
            [call |-> "find", db |-> db,
             rows |-> SelectSeq([n \in 1..Len(db.nodes) |->
                                    IF matched(n)
                                    THEN Cypher_project(neode.labels, output, db, n)
                                    ELSE JsUndefined],
                                LAMBDA row : row # JsUndefined)]
        result(x) == x @@ [out |-> hydrate(neode, x.rows, NoDefinition)]
    IN CHOOSE call \in
           {result(x) : x \in
               {returned(output) :
                   output \in {eagerNode(neode.models, 1, ORIGINAL_ALIAS, model)}}} : TRUE

\* The property bags handed to Create and MergeOn.
Bags ==
    LET S(v) == [k |-> "scalar", v |-> v]
    IN {(<<"id">> :> S("v1")) @@ (<<"name">> :> S("v2")),
        (<<"id">> :> S("v4")),
        (<<"id">> :> S("v4")) @@ (<<"other">> :> S("v5"))}

\* The Models A and B are registered, and the database holds a chain of
\* entities of the Model A.
EntityInit ==
    /\ models = [m \in {"A", "B"} |-> <<>>]
    /\ \E n \in ChainLengths :
          graph = [nodes |-> [i \in 1..n |->
                                 [labels |-> ModelLabels["A"],
                                  properties |-> (<<"id">> :> String(<<"v" \o ToString(i)>>))]],
                   edges |-> {<<i, i + 1>> : i \in 1..(n - 1)}]
    /\ factory = [pc |-> "ready", names |-> <<"A", "B">>,
                  labels |-> [m \in {"A", "B"} |-> Array_sort(ModelLabels[m])],
                  properties |-> [m \in {"A", "B"} |-> ModelProperties[m]],
                  calls |-> <<>>]
    /\ eagerOut = NoProjection
    /\ deleteOut = NoProjection
    /\ BuilderIdle
    /\ StatementIdle
    /\ WriteIdle
    /\ BatchIdle

EntityFrame == UNCHANGED <<stmtVars, builderVars, eagerOut, deleteOut, writeVars, batch>>

EntityNext ==
    \* Model.relationship(...): one relationship of the Model A is declared
    \* before the first call
    \/ \E rel \in EagerDeclarations :
          /\ factory.calls = <<>>
          /\ models["A"] = <<>>
          /\ models' = [models EXCEPT !["A"] = Model_relationship(@, rel @@ [properties |-> {}])]
          /\ UNCHANGED <<graph, factory>>
          /\ EntityFrame
    \* Create(neode, model, properties)
    \/ \E properties \in Bags :
          \E x \in {WriteEntity(Registry, "create", "A", properties, graph)} :
              /\ Len(factory.calls) < MaxCalls
              /\ factory' = [factory EXCEPT !.calls = Append(@, x)]
              /\ graph' = x.db
              /\ UNCHANGED models
              /\ EntityFrame
    \* MergeOn(neode, model, ["id"], properties)
    \/ \E properties \in Bags :
          \E x \in {WriteEntity(Registry, "merge", "A", properties, graph)} :
              /\ Len(factory.calls) < MaxCalls
              /\ factory' = [factory EXCEPT !.calls = Append(@, x)]
              /\ graph' = x.db
              /\ UNCHANGED models
              /\ EntityFrame
    \* FindAll(neode, model)
    \/ \E x \in {FindAll(Registry, "A", graph)} :
          /\ Len(factory.calls) < MaxCalls
          /\ factory' = [factory EXCEPT !.calls = Append(@, x)]
          /\ UNCHANGED <<graph, models>>
          /\ EntityFrame

SpecEntity == EntityInit /\ [][EntityNext]_vars

(***************************************************************************)
(* SpecSplit: splitProperties on the Models of two properties with every   *)
(* combination of flags                                                    *)
(***************************************************************************)
PropertyFlags == [primary : BOOLEAN, protected : BOOLEAN, readonly : BOOLEAN]

\* The supplied property bags: one of the two properties or both.
SplitBags ==
    LET S(v) == [k |-> "scalar", v |-> v]
    IN {(<<"id">> :> S("v1")), (<<"name">> :> S("v2")),
        (<<"id">> :> S("v1")) @@ (<<"name">> :> S("v2"))}

\* A Model is registered whose schema declares the properties id and name.
SplitInit ==
    /\ \E id \in PropertyFlags, name \in PropertyFlags :
          factory = [pc |-> "ready",
                     schema |-> (<<"id">> :> id) @@ (<<"name">> :> name),
                     model |-> <<ModelProperty(<<"id">>, id),
                                 ModelProperty(<<"name">>, name)>>]
    /\ EagerIdle
    /\ DeleteIdle
    /\ BuilderIdle
    /\ StatementIdle
    /\ WriteIdle
    /\ BatchIdle

SplitNext ==
    \* addNodeToStatement(..., mode, mergeOn): splitProperties(mode, model,
    \* properties, mergeOn)
    \/ \E mode \in {"create", "merge"}, properties \in SplitBags,
          mergeOn \in SUBSET {<<"id">>, <<"name">>} :
          /\ factory.pc = "ready"
          /\ factory' = [factory EXCEPT !.pc = "called"]
                        @@ [mode |-> mode, properties |-> properties, mergeOn |-> mergeOn,
                            out |-> splitProperties(mode, factory.model, properties, mergeOn)]
          /\ UNCHANGED <<stmtVars, builderVars, eagerVars, deleteVars, writeVars, batch>>

SpecSplit == SplitInit /\ [][SplitNext]_vars

(***************************************************************************)
(* SpecExtend: a Model is registered, relationships are defined on it      *)
(* retrospectively, and it is extended                                     *)
(***************************************************************************)
MaxExtends == 2          \* calls of extend

\* The schemas of the Model A.
ExtendSchemas ==
    LET id == PropertyEntry(<<"id">>, "uuid", TRUE)
        name == PropertyEntry(<<"name">>, "string", FALSE)
        r == RelationshipEntry(RelationshipType(<<"r">>, "node", "REL", DIRECTION_OUT, "A",
                                                TRUE, "false", <<"node">>))
    IN {<<id, name>>, <<id, r>>, <<LabelsEntry(<<<<"B">>, <<"A">>>>), id>>}

\* The schema changes of an extension: none, a further property, a
\* relationship, a property that replaces one of the original.
ExtendUsings ==
    {<<>>,
     <<PropertyEntry(<<"extra">>, "string", FALSE)>>,
     <<RelationshipEntry(RelationshipType(<<"t">>, "nodes", "REL", DIRECTION_IN, "A",
                                          FALSE, "false", <<"node">>))>>,
     <<PropertyEntry(<<"name">>, "number", FALSE)>>}

\* The relationship defined retrospectively with Model.relationship.
ExtendRelationships ==
    {RelationshipType(<<"knows">>, "relationship", "KNOWS", DIRECTION_OUT, "A",
                      FALSE, "false", <<"node">>)}

ExtendInit ==
    /\ \E schema \in ExtendSchemas :
          factory = [pc |-> "ready", names |-> <<"A">>,
                     models |-> [n \in {"A"} |-> Model_new("A", schema)],
                     calls |-> <<>>]
    /\ EagerIdle
    /\ DeleteIdle
    /\ BuilderIdle
    /\ StatementIdle
    /\ WriteIdle
    /\ BatchIdle

ExtendFrame == UNCHANGED <<stmtVars, builderVars, eagerVars, deleteVars, writeVars, batch>>

ExtendNext ==
    \* instance.model(name).relationship(...)
    \/ \E name \in DOMAIN factory.models, rel \in ExtendRelationships :
          /\ \A i \in 1..Len(factory.models[name].relationships) :
                factory.models[name].relationships[i].name # rel.name
          /\ factory' = [factory EXCEPT !.models[name].relationships =
                                            Model_relationship(@, rel)]
          /\ ExtendFrame
    \* instance.extend(name, as, using)
    \/ \E name \in {"A", "B", "Missing"}, as \in {"B", "C"}, using \in ExtendUsings :
          \E x \in {ModelMap_extend([names |-> factory.names, models |-> factory.models],
                                    name, as, using)} :
              /\ Len(factory.calls) < MaxExtends
              /\ as \notin DOMAIN factory.models
              /\ name \notin DOMAIN factory.models => (as = "C" /\ using = <<>>)
              /\ factory' =
                    [factory EXCEPT
                        !.names = IF x.threw THEN @ ELSE x.value.map.names,
                        !.models = IF x.threw THEN @ ELSE x.value.map.models,
                        !.calls = Append(@, [name |-> name, as |-> as, using |-> using,
                                             before |-> factory.models, out |-> x])]
              /\ ExtendFrame

SpecExtend == ExtendInit /\ [][ExtendNext]_vars

(***************************************************************************)
(* SpecExecute: a Builder is filled and executed, and explicit queries are *)
(* run, against a session that accepts or rejects what it is sent          *)
(***************************************************************************)
MaxExecuteCalls == 3     \* calls made on the Builder
MaxRuns == 2             \* queries run: execute, cypher, readCypher, writeCypher

\* The explicit queries: a string, [text |-> ...], with a parameter map, and
\* an object that brings its own parameters.
ExplicitQueries ==
    {[query |-> [text |-> <<"RETURN 1">>], params |-> EmptyParams],
     [query |-> [text |-> <<"RETURN $x">>], params |-> ParamSet(EmptyParams, <<"x">>, "v1")],
     [query |-> [text |-> <<"RETURN $x">>,
                 parameters |-> ParamSet(EmptyParams, <<"x">>, "v2")],
      params |-> EmptyParams]}

\* What a session was sent: the text and parameters tx.run / session.run
\* receives (an object query is run with its own parameters).
Dispatch(session, query, params) ==
    [session |-> session,
     query |-> query.text,
     params |-> IF "parameters" \in DOMAIN query THEN query.parameters ELSE params]

ExecuteInit ==
    /\ batch = [pc |-> "idle", runs |-> 0]
    /\ EagerIdle
    /\ DeleteIdle
    /\ BuilderIdle
    /\ StatementIdle
    /\ WriteIdle
    /\ FactoryIdle

ExecuteFrame == UNCHANGED <<stmtVars, eagerVars, deleteVars, writeVars, factory>>

\* A call begins: the session is opened and the query is sent, once.
Begin(api, mode, query, params, session) ==
    batch' = [pc |-> "sent", runs |-> batch.runs + 1, api |-> api, mode |-> mode,
              given |-> [query |-> query, params |-> params],
              sessions |-> <<session>>,
              dispatched |-> <<Dispatch(session, query, params)>>,
              closed |-> 0, rejected |-> FALSE,
              outcome |-> [threw |-> FALSE, value |-> <<>>]]

ExecuteNext ==
    \* Builder.match(alias, model, properties)
    \/ \E properties \in {<<>>, <<[key |-> <<"c">>, value |-> "v1"]>>} :
          /\ batch.pc \in {"idle", "done"}
          /\ Call(MaxExecuteCalls, "match",
                  Builder_match(builder, <<"a">>, "Person", properties),
                  InlineBinds(<<"a">>, properties))
    \* Builder.where(left, value)
    \/ \E value \in {"v1", "v2"} :
          \E r \in {Builder_where(builder, [form |-> "kv", left |-> <<"a", ".", "x">>,
                                            value |-> value])} :
              /\ batch.pc \in {"idle", "done"}
              /\ opened
              /\ Call(MaxExecuteCalls, "where", r, <<>>)
    \* Builder.return(alias)
    \/ /\ batch.pc \in {"idle", "done"}
       /\ opened
       /\ Call(MaxExecuteCalls, "return", Builder_return(builder, <<<<"a">>>>), <<>>)
    \* Builder.execute(queryMode): build, then session.executeWrite or
    \* session.executeRead with tx => tx.run(query, params)
    \/ \E queryMode \in {"WRITE", "READ"} :
          \E r \in {Builder_build(builder)} :
              /\ batch.pc \in {"idle", "done"}
              /\ batch.runs < MaxRuns
              /\ ~r.threw
              /\ builder' = r.b
              /\ Begin("execute", queryMode, [text |-> joinLines(Builder_query(r.b))],
                       r.b.params, executeSession(queryMode))
              /\ UNCHANGED <<opened, calls>>
              /\ ExecuteFrame
    \* Neode.cypher, readCypher, writeCypher(query, params)
    \/ \E api \in {"cypher", "readCypher", "writeCypher"}, x \in ExplicitQueries :
          /\ batch.pc \in {"idle", "done"}
          /\ batch.runs < MaxRuns
          /\ Begin(api, "", x.query, x.params, cypherSession(api))
          /\ UNCHANGED builderVars
          /\ ExecuteFrame
    \* the session accepts the query and resolves with its result, or
    \* rejects it
    \/ \E ok \in BOOLEAN :
          /\ batch.pc = "sent"
          /\ batch' = [batch EXCEPT
                 !.pc = "close",
                 !.rejected = ~ok,
                 !.outcome =
                     IF ok THEN [threw |-> FALSE, value |-> <<"result", batch.dispatched[1]>>]
                     ELSE [threw |-> TRUE,
                           error |-> IF batch.api = "execute"
                                     THEN Builder_execute_catch(
                                              batch.given.query, batch.given.params,
                                              [t |-> "Error", from |-> "session"])
                                     ELSE Neode_cypher_catch(
                                              batch.given.query, batch.given.params,
                                              [t |-> "Error", from |-> "session"])]]
          /\ UNCHANGED builderVars
          /\ ExecuteFrame
    \* finally: session.close(), and the call settles
    \/ /\ batch.pc = "close"
       /\ batch' = [batch EXCEPT !.pc = "done", !.closed = @ + 1]
       /\ UNCHANGED builderVars
       /\ ExecuteFrame

SpecExecute == ExecuteInit /\ [][ExecuteNext]_vars

(***************************************************************************)
(* Node.relateTo (Node.ts, lines 398-428) and Services/RelateTo.ts         *)
(***************************************************************************)
NoRelationshipType == [t |-> "undefined"]
\* `this._model.relationships.get(relationshipKey)`
Model_relationships_get(rels, key) ==
    IF \E i \in 1..Len(rels) : rels[i].name = key
    THEN rels[CHOOSE i \in 1..Len(rels) : rels[i].name = key]
    ELSE NoRelationshipType

\* A variant that takes whatever the lookup returned for a RelationshipType.
isRelationshipType_any(x) == TRUE
\* `relationshipType instanceof RelationshipType`
isRelationshipType(x) == "relationship" \in DOMAIN x

\* `Cannot find relationship with type ${relationshipKey}`
relateTo_error(relationshipKey) ==
    [t |-> "Error", message |-> <<"Cannot find relationship with type ">> \o relationshipKey]

\* RelateTo up to neode.writeCypher(query, params): the properties the
\* RelationshipType declares, the text and the parameters.  Without a
\* RelationshipType the first read of the schema throws a TypeError.
RelateTo_query(from, to, relationship, properties, forceCreate) ==
    IF ~("relationship" \in DOMAIN relationship)
    THEN [threw |-> TRUE, error |-> [t |-> "TypeError", message |-> <<"schema">>]]
    ELSE LET declared == relationship.properties \cap DOMAIN properties
             keys == CHOOSE s \in [1..Cardinality(declared) -> declared] : Range(s) = declared
             directionIn == IF relationship.direction = DIRECTION_IN THEN "<" ELSE ""
             directionOut == IF relationship.direction = DIRECTION_OUT THEN ">" ELSE ""
             RECURSIVE assignments(_)
             assignments(i) ==
                 IF i > Len(keys) THEN <<>>
                 ELSE (IF i = 1 THEN <<"SET ">> ELSE <<", ">>)
                      \o <<"rel.">> \o keys[i] \o <<" = $set_">> \o keys[i]
                      \o assignments(i + 1)
         IN [threw |-> FALSE,
             query |-> [text |-> <<"MATCH (from), (to) WHERE id(from) = $from_id AND id(to) = $to_id ",
                                   IF forceCreate THEN "CREATE" ELSE "MERGE",
                                   " (from)", directionIn, "-[rel:", relationship.relationship,
                                   "]-", directionOut, "(to) ">>
                                 \o assignments(1) \o <<" RETURN rel">>],
             params |-> [name \in {<<"from_id">>, <<"to_id">>}
                                  \cup {<<"set_">> \o key : key \in declared} |->
                            IF name = <<"from_id">> THEN from
                            ELSE IF name = <<"to_id">> THEN to
                            ELSE properties[Tail(name)]]]

\* RelateTo from the result of the query: the Relationship it returns.
RelateTo_result(from, to, relationship, relation) ==
    [t |-> "Relationship", relationship |-> relationship.name,
     identity |-> relation.identity, type |-> relation.type,
     properties |-> relation.properties,
     from |-> IF relationship.direction = DIRECTION_IN THEN to ELSE from,
     to |-> IF relationship.direction = DIRECTION_OUT THEN from ELSE to]

(***************************************************************************)
(* SpecTarget: Create and MergeOn with a payload that holds a value for    *)
(* one relationship, whose target is a registered Model, a name that is    *)
(* not registered, or missing                                              *)
(***************************************************************************)
Unregistered == "Z"

\* The other end of the relationship, as a payload gives it: a primary
\* key, a Node instance or a property bag.
TargetEnd(kind) ==
    CASE kind = "scalar" -> [k |-> "scalar", v |-> "v1"]
      [] kind = "node" -> [k |-> "node", v |-> "v2"]
      [] kind = "bag" -> [k |-> "bag", v |-> 2]

\* The payloads tried for one kind of end: the root holds its primary key
\* and one relationship key with the end (inside the map of the
\* relationship for the relationship shapes), or no relationship key.
TargetWrites(kind) ==
    LET S == [k |-> "scalar", v |-> "v1"]
        Bag(i) == [k |-> "bag", v |-> i]
        leaf == (<<"id">> :> [k |-> "scalar", v |-> "v2"])
        value == TargetEnd(kind)
        root(key, x) == (<<"id">> :> S) @@ (key :> x)
        direct(key, x) == (0 :> root(key, x)) @@ (2 :> leaf)
        through(key) ==
            (0 :> root(key, Bag(1))) @@ (1 :> (<<"node">> :> value)) @@ (2 :> leaf)
    IN {direct(<<"child">>, value),
        direct(<<"children">>, [k |-> "array", v |-> <<value>>]),
        through(<<"link">>),
        through(<<"links">>),
        (0 :> (<<"id">> :> S))}

\* One registered Model whose four relationships, one of each shape, name
\* the same target.
TargetInit ==
    /\ \E target \in {"A", Unregistered, NoModel} :
          models = [m \in {"A"} |->
              <<RelationshipType(<<"child">>, "node", "REL", DIRECTION_OUT, target, FALSE, "false", <<"node">>),
                RelationshipType(<<"children">>, "nodes", "REL", DIRECTION_OUT, target, FALSE, "false", <<"node">>),
                RelationshipType(<<"link">>, "relationship", "REL", DIRECTION_OUT, target, FALSE, "false", <<"node">>),
                RelationshipType(<<"links">>, "relationships", "REL", DIRECTION_OUT, target, FALSE, "false", <<"node">>)>>]
    /\ batch = [pc |-> "idle"]
    /\ eagerOut = NoProjection
    /\ DeleteIdle
    /\ BuilderIdle
    /\ StatementIdle
    /\ WriteIdle
    /\ FactoryIdle

TargetFrame == UNCHANGED <<stmtVars, opened, calls, eagerVars, deleteVars, factory>>

\* The call is rejected with the error thrown while the write is compiled.
Rejected(error) ==
    batch' = [pc |-> "rejected", given |-> batch.given, error |-> error, dispatched |-> <<>>]

TargetNext ==
    \* Create(neode, model, properties) and MergeOn: a new Builder and
    \* addNodeToStatement(neode, builder, "this", model, properties, ["this"], mode)
    \/ \E kind \in {"scalar", "node", "bag"}, mode \in {"create", "merge"} :
       \E w \in TargetWrites(kind) \X {mode} :
          /\ wstatus = "idle"
          /\ payload' = w[1]
          /\ wstack' = <<Frame(ORIGINAL_ALIAS, "A",
                               GenerateDefaultValues(models, "A", w[1][0]), w[2], NoFrame)>>
          /\ aliases' = <<ORIGINAL_ALIAS>>
          /\ builder' = NewBuilder
          /\ wstatus' = "running"
          /\ batch' = [pc |-> "compiling", given |-> w]
          /\ TargetFrame
    \* addNodeToStatement is entered: properties, alias, pattern head
    \/ /\ wstatus = "running"
       /\ ~Head(wstack).entered
       /\ \E h \in {addNodeToStatement_head(builder, aliases, Head(wstack))} :
             /\ ~h.threw
             /\ builder' = h.b
             /\ aliases' = h.aliases
             /\ wstack' = <<[Head(wstack) EXCEPT !.entered = TRUE]>> \o Tail(wstack)
       /\ UNCHANGED <<payload, wstatus, batch>>
       /\ TargetFrame
    \* the loop over model.relationships: a key the payload does not hold
    \/ /\ wstatus = "running"
       /\ Head(wstack).entered
       /\ Head(wstack).rel <= Len(models[Head(wstack).model])
       /\ models[Head(wstack).model][Head(wstack).rel].name \notin DOMAIN Head(wstack).properties
       /\ wstack' = <<[Head(wstack) EXCEPT !.rel = @ + 1, !.idx = 0]>> \o Tail(wstack)
       /\ UNCHANGED <<builder, payload, aliases, wstatus, batch>>
       /\ TargetFrame
    \* the loop over model.relationships: the value the payload holds for
    \* the key (one value for each key in these payloads)
    \/ /\ wstatus = "running"
       /\ Head(wstack).entered
       /\ Head(wstack).rel <= Len(models[Head(wstack).model])
       /\ models[Head(wstack).model][Head(wstack).rel].name \in DOMAIN Head(wstack).properties
       /\ \E f \in {Head(wstack)} :
          \E relationship \in {models[f.model][f.rel]} :
          \E w \in {Builder_with(builder, aliases)} :
             LET key == relationship.name
                 plural == relationship.type \in {"relationships", "nodes"}
                 value == f.properties[key]
                 valueArray == IF plural /\ value.k = "array" THEN value.v ELSE <<value>>
                 suffix == IF plural THEN <<ToString(f.idx)>> ELSE <<>>
                 relAlias == f.alias \o <<"_">> \o key \o <<"_", "rel">> \o suffix
                 targetAlias == f.alias \o <<"_">> \o key \o <<"_", "node">> \o suffix
                 next == [f EXCEPT !.rel = @ + 1, !.idx = 0]
             IN /\ ~w.threw
                /\ Len(valueArray) = 1
                /\ IF targetMissing(relationship)
                   THEN /\ builder' = w.b
                        /\ wstack' = <<>>
                        /\ wstatus' = "threw"
                        /\ Rejected(targetMissing_error(key, f.model))
                        /\ UNCHANGED payload
                   ELSE \E x \in {IF relationship.type \in {"relationship", "relationships"}
                                   THEN addRelationshipToStatement(models, w.b, payload,
                                            f.alias, relAlias, targetAlias, relationship,
                                            valueArray[1], aliases, f.mode)
                                   ELSE addNodeRelationshipToStatement(models, w.b, payload,
                                            f.alias, relAlias, targetAlias, relationship,
                                            valueArray[1], aliases, f.mode)
                                        @@ [heap |-> payload]} :
                        /\ builder' = x.b
                        /\ payload' = x.heap
                        /\ x.kind = "threw" => "error" \in DOMAIN x
                        /\ wstatus' = IF x.kind = "threw" THEN "threw" ELSE "running"
                        /\ wstack' = CASE x.kind = "threw" -> <<>>
                                       [] x.kind = "call" -> <<x.frame, next>> \o Tail(wstack)
                                       [] OTHER -> <<next>> \o Tail(wstack)
                        /\ IF x.kind = "threw" THEN Rejected(x.error) ELSE UNCHANGED batch
       /\ UNCHANGED aliases
       /\ TargetFrame
    \* addNodeToStatement returns; its caller creates the relationship
    \/ /\ wstatus = "running"
       /\ Head(wstack).entered
       /\ Head(wstack).rel > Len(models[Head(wstack).model])
       /\ \E f \in {Head(wstack)} :
          \E r \in {IF IsSet(f.after)
                     THEN createRelationship(builder, f.after.alias, f.after.relAlias,
                              f.after.targetAlias, f.after.relationship, f.mode)
                     ELSE Res(builder)} :
             /\ ~r.threw
             /\ builder' = r.b
             /\ wstack' = Tail(wstack)
             /\ wstatus' = IF Tail(wstack) = <<>> THEN "done" ELSE "running"
       /\ UNCHANGED <<payload, aliases, batch>>
       /\ TargetFrame
    \* builder.return(output).execute(QueryMode.WRITE): the one query of the
    \* write is sent; its text is kept as the Statements it is joined from
    \/ /\ wstatus = "done"
       /\ batch.pc = "compiling"
       /\ \E r1 \in {Builder_return(builder, <<eagerNode(models, 1, ORIGINAL_ALIAS, "A")>>)} :
          \E r \in {Builder_build(r1.b)} :
             /\ ~r1.threw
             /\ ~r.threw
             /\ builder' = r.b
             /\ batch' = [pc |-> "sent", given |-> batch.given,
                          dispatched |-> <<Dispatch(executeSession("WRITE"),
                                                    [text |-> r.b.statements],
                                                    r.b.params)>>]
       /\ UNCHANGED <<payload, wstack, aliases, wstatus>>
       /\ TargetFrame

SpecTarget == TargetInit /\ [][TargetNext]_vars

(***************************************************************************)
(* C1                                                                      *)
(***************************************************************************)
FixedOrder ==
    <<"pattern", "filter", "REMOVE", "ON CREATE SET", "ON MATCH SET", "SET",
      "DELETE", "DETACH DELETE", "RETURN", "ORDER BY", "SKIP", "LIMIT">>

\* What was added to each section of a Statement.
SectionContent(s, sec) ==
    CASE sec = "pattern" -> s.pattern
      [] sec = "filter" -> s.where
      [] sec = "REMOVE" -> s.remove
      [] sec = "ON CREATE SET" -> s.on_create_set
      [] sec = "ON MATCH SET" -> s.on_match_set
      [] sec = "SET" -> s.set
      [] sec = "DELETE" -> s.delete
      [] sec = "DETACH DELETE" -> s.detach_delete
      [] sec = "RETURN" -> s.return
      [] sec = "ORDER BY" -> s.order
      [] sec = "SKIP" -> IF s.skip = NoNumber THEN <<>> ELSE <<s.skip>>
      [] sec = "LIMIT" -> IF s.limit = NoNumber THEN <<>> ELSE <<s.limit>>

\* The section an entry of the serialized text belongs to: told by its
\* keyword, or for the two sections without a keyword of their own by the
\* class of its clauses.
SectionOf(e) ==
    IF e.kw \in Range(FixedOrder) THEN e.kw
    ELSE IF e.items[1].t = "WhereStatement" THEN "filter" ELSE "pattern"

Rank(sec) == CHOOSE i \in 1..Len(FixedOrder) : FixedOrder[i] = sec

SerializedInFixedOrder(s, o) ==
    /\ \A i, j \in 1..Len(o) :
           i < j => Rank(SectionOf(o[i])) < Rank(SectionOf(o[j]))
    /\ \A i \in 1..Len(o) : o[i].items = SectionContent(s, SectionOf(o[i]))
    /\ \A sec \in Range(FixedOrder) :
           SectionContent(s, sec) = <<>> =>
               \A i \in 1..Len(o) : SectionOf(o[i]) # sec

\* C1: whatever the order in which clauses were added, the serialized text
\* lists the sections in the fixed order pattern, filter, REMOVE, ON CREATE
\* SET, ON MATCH SET, SET, DELETE, DETACH DELETE, RETURN, ORDER BY, SKIP,
\* LIMIT, each holding what was added to it, and a section to which nothing
\* was added contributes no entry.
C1_FixedSectionOrder ==
    \A includePrefix \in BOOLEAN :
        SerializedInFixedOrder(st, Statement_toString(st, includePrefix))

\* Clauses added against the fixed order (LIMIT, then SET, then REMOVE) and
\* all three serialized.
C1_Witness ==
    /\ addLog = <<"limit", "set", "remove">>
    /\ Len(Statement_toString(st, TRUE)) = 3

(***************************************************************************)
(* C2, C3, C4                                                              *)
(***************************************************************************)
InlineOps == {"match", "create", "merge", "to"}

\* C2: every inline property value passed to match, create, merge or to is
\* stored under a name that was not in the parameter table before the call,
\* so the value bound by every earlier call is still in the table under the
\* name that call was given.
C2_InlineNamesFresh ==
    \A i \in 1..Len(calls) :
        calls[i].op \in InlineOps =>
            \A k \in 1..Len(calls[i].binds) :
                /\ calls[i].binds[k].name \notin calls[i].before
                /\ builder.params[calls[i].binds[k].name] = calls[i].binds[k].value

\* The parameters bound by the where calls made so far, in call order.
bindsOf(c) == IF c.op = "where" THEN c.binds ELSE <<>>
RECURSIVE boundIn(_)
boundIn(cs) == IF cs = <<>> THEN <<>> ELSE bindsOf(Head(cs)) \o boundIn(Tail(cs))
WhereBound == boundIn(calls)

\* C3: the parameter names given to the conditions of any sequence of where
\* calls are pairwise distinct, and the parameter table holds every call's
\* value under its name.
C3_WhereNamesDistinct ==
    /\ \A i, j \in 1..Len(WhereBound) :
           i # j => WhereBound[i].name # WhereBound[j].name
    /\ \A i \in 1..Len(WhereBound) :
           builder.params[WhereBound[i].name] = WhereBound[i].value

MisuseOps ==
    {"where", "whereNot", "whereBetween", "whereId", "whereRaw", "set",
     "onCreateSet", "onMatchSet", "remove", "delete", "detachDelete", "return",
     "orderBy", "limit", "skip"}

\* C4: on a Builder on which no match, optionalMatch, create, merge or with
\* call was made, every call to where, whereNot, whereBetween, whereId,
\* whereRaw, set, onCreateSet, onMatchSet, remove, delete, detachDelete,
\* return, orderBy, limit or skip throws.
C4_MisuseThrows ==
    \A i \in 1..Len(calls) :
        (calls[i].op \in MisuseOps /\ ~calls[i].opened) => calls[i].threw

(***************************************************************************)
(* C5                                                                      *)
(***************************************************************************)
Max(S) == IF S = {} THEN 0 ELSE CHOOSE x \in S : \A y \in S : y <= x

\* How deep the eager sub-patterns of a projection are nested.
RECURSIVE Nesting(_)
Nesting(x) ==
    CASE x.t = "node" -> Max({Nesting(x.eager[i]) : i \in 1..Len(x.eager)})
      [] x.t = "pattern" -> 1 + Nesting(x.fields)
      [] x.t = "relationship" -> Nesting(x.node)

\* How many eager sub-patterns a projection holds.
RECURSIVE SumOver(_)
SumOver(q) == IF q = <<>> THEN 0 ELSE Head(q) + SumOver(Tail(q))
RECURSIVE Patterns(_)
Patterns(x) ==
    CASE x.t = "node" -> SumOver([i \in 1..Len(x.eager) |-> Patterns(x.eager[i])])
      [] x.t = "pattern" -> 1 + Patterns(x.fields)
      [] x.t = "relationship" -> Patterns(x.node)

\* The most eager relationships any one Model declares.
Widest == Max({Len(Model_eager(models[m])) : m \in DOMAIN models})

\* C5: for every schema, self-referential ones included, the projection
\* compiled from a root at depth 1 nests eager sub-patterns at most 3
\* levels deep, so it holds at most k + k^2 + k^3 sub-patterns, where k is
\* the most eager relationships one Model declares: a size fixed by the
\* schema alone.
C5_EagerDepthBounded ==
    IsSet(eagerOut) =>
        /\ Nesting(eagerOut) <= 3
        /\ Patterns(eagerOut) <= Widest + Widest * Widest + Widest * Widest * Widest

\* A Model with two eager relationships to itself, compiled to the full
\* three levels.
C5_Witness ==
    /\ IsSet(eagerOut)
    /\ \E i \in 1..Len(models["A"]) :
           models["A"][i].eager /\ models["A"][i].target = "A"
    /\ Nesting(eagerOut) = 3
    /\ Patterns(eagerOut) = 14

(***************************************************************************)
(* C6                                                                      *)
(***************************************************************************)
\* Every Model the cascade reaches from "A" declares one relationship, with
\* cascade DELETE and a registered target: the entities form one chain.
CascadeChain(ms) ==
    \A m \in DOMAIN ms :
        (m = "A" \/ \E n \in DOMAIN ms : \E i \in 1..Len(ms[n]) : ms[n][i].target = m)
            => /\ Len(ms[m]) = 1
               /\ ms[m][1].cascade = "DELETE"
               /\ ms[m][1].target \in DOMAIN ms

\* C6: deleting, with the default depth, a root whose cascade=Delete
\* relationships form a chain of L further entities removes exactly the
\* root and the first min(L, 10) entities of the chain.
C6_CascadeRemovesChain ==
    (IsSet(deleteOut) /\ deleteOut.toDepth = 10 /\ CascadeChain(models)) =>
        LET L == Cardinality(deleteOut.before) - 1
        IN graph = {n \in deleteOut.before : n > 10}

(***************************************************************************)
(* C7                                                                      *)
(***************************************************************************)
\* The aliases for which the query opens a node pattern.
NodeAliases(b) ==
    LET all == IF IsSet(b.current) THEN Append(b.statements, b.current)
               ELSE b.statements
        stmts == {s \in Range(all) : s.t = "Statement"}
    IN {c.alias : c \in {c \in UNION {Range(s.pattern) : s \in stmts} : c.t = "Match"}}

\* C7 as stated: whatever the payload, the query opens node patterns for at
\* most 100 aliases, the root and 99 nested entities.
C7_AtMostHundredAliases ==
    Cardinality(NodeAliases(builder)) <= MAX_CREATE_DEPTH + 1

\* The nested entities the expansion may still begin.
Budget ==
    MAX_CREATE_DEPTH + 1 - Len(aliases)
        - (IF /\ wstack # <<>>
              /\ ~Head(wstack).entered
              /\ Head(wstack).alias \notin Range(aliases)
           THEN 1 ELSE 0)

\* The steps the innermost call still takes on its own: entering, one per
\* relationship key or per item of its value, and returning.
Steps ==
    LET f == Head(wstack)
        items(r) ==
            LET rel == models[f.model][r]
                v == f.properties[rel.name]
            IN IF rel.name \notin DOMAIN f.properties THEN 1
               ELSE IF rel.type \in {"nodes", "relationships"} /\ v.k = "array"
               THEN Max({1, Len(v.v)})
               ELSE 1
    IN (IF f.entered THEN 0 ELSE 1) + 1 - f.idx
       + SumOver([i \in 1..(Len(models[f.model]) + 1 - f.rel) |-> items(f.rel + i - 1)])

\* C7, amended: for every payload, deeper than 99 levels or cyclic ones
\* included, the expansion terminates: while it runs a call is under way,
\* and every step begins one of the nested entities that may still be
\* begun, or returns from a call, or takes one of the steps the innermost
\* call has left.  The shared alias list, which holds the root and the
\* entities given as property bags, never holds more than 100 entries; and
\* a step of the loop over the relationships that is taken while the list
\* holds more than 99 entries expands no nested entity and adds nothing to
\* the query but the WITH that carries the aliases.
C7_GuardedExpansion ==
    /\ [](/\ Len(aliases) <= MAX_CREATE_DEPTH + 1
          /\ Budget >= 0
          /\ wstatus = "running" <=> wstack # <<>>)
    /\ [][wstatus = "running" =>
             \/ Budget' < Budget
             \/ Budget' = Budget /\ Len(wstack') < Len(wstack)
             \/ Budget' = Budget /\ Len(wstack') = Len(wstack) /\ Steps' < Steps]_vars
    /\ [][(/\ wstatus = "running"
           /\ Len(aliases) > MAX_CREATE_DEPTH
           /\ Head(wstack).entered
           /\ Head(wstack).rel <= Len(models[Head(wstack).model]))
          => /\ wstatus' = "running"
             /\ aliases' = aliases
             /\ Len(wstack') = Len(wstack)
             /\ builder' \in {builder, Builder_with(builder, aliases).b}]_vars

\* The expansion of an object that is its own child has reached the guard
\* with the root and 99 nested entities, and the loop over the
\* relationships of the last of them has gone past the cycle.
C7_Witness ==
    /\ wstatus = "running"
    /\ \E o \in DOMAIN payload :
           /\ <<"child">> \in DOMAIN payload[o]
           /\ payload[o][<<"child">>] = [k |-> "bag", v |-> o]
    /\ Len(aliases) = MAX_CREATE_DEPTH + 1
    /\ Head(wstack).entered
    /\ Head(wstack).rel > 1
    /\ Cardinality(NodeAliases(builder)) = MAX_CREATE_DEPTH + 1

(***************************************************************************)
(* C8, C9, C10                                                             *)
(***************************************************************************)
Settled(status) == {i \in DOMAIN batch.promises : batch.promises[i].status = status}

\* C8: every query is handed to the transaction before any is waited on,
\* the outcome is decided only when every query has settled, and a batch
\* with a rejected query fails with one TransactionError whose errors hold
\* the reason of every rejected query.
C8_AggregateFailure ==
    batch.pc # "idle" =>
        /\ batch.given => batch.run = batch.queries
        /\ batch.pc # "allSettled" => Settled("pending") = {}
        /\ (batch.pc = "done" /\ Settled("rejected") # {}) =>
               /\ batch.outcome.threw
               /\ batch.outcome.error.t = "TransactionError"
               /\ \A i \in Settled("rejected") :
                      batch.promises[i].reason \in Range(batch.outcome.error.errors)

\* C9: once a query of the batch has been rejected, commit is never invoked
\* on the transaction and the store shows no effect of the batch; the batch
\* ends with rollback invoked and with a failure.
C9_RejectedNeverCommitted ==
    (batch.pc # "idle" /\ Settled("rejected") # {}) =>
        /\ batch.commit = "none"
        /\ batch.store = {}
        /\ batch.pc = "done" => (batch.rollback # "none" /\ batch.outcome.threw)

\* Three queries, the second rejected and the others fulfilled: the batch
\* has ended, rolled back.
C9_Witness ==
    /\ batch.pc = "done"
    /\ Len(batch.queries) = 3
    /\ Settled("rejected") = {2}
    /\ Settled("fulfilled") = {1, 3}
    /\ batch.rollback = "fulfilled"

\* C10 as stated: a batch whose queries all succeeded ends committed and
\* returns one result per query, in the order of the queries.
C10_AllSucceedCommitted ==
    (batch.pc = "done" /\ batch.given /\ Settled("rejected") = {}) =>
        /\ batch.commit = "fulfilled"
        /\ ~batch.outcome.threw
        /\ batch.outcome.value =
               [i \in 1..Len(batch.queries) |-> <<"result", batch.queries[i]>>]

\* C10, amended: when every query of a batch has succeeded, commit is
\* invoked on the transaction.  If the commit is accepted the batch returns
\* one result per query, in the order of the queries, and the effects of
\* all of them are in the store; if the commit is rejected the batch fails,
\* returns nothing, and the store shows no effect of the batch.
C10_CommittedWhenAccepted ==
    (batch.pc \in {"commit", "rollback", "close", "done"}
         /\ batch.given /\ Settled("rejected") = {}) =>
        /\ batch.commit # "none"
        /\ (batch.pc = "done" /\ batch.commit = "fulfilled") =>
               /\ ~batch.outcome.threw
               /\ batch.outcome.value =
                      [i \in 1..Len(batch.queries) |-> <<"result", batch.queries[i]>>]
               /\ batch.store = Range(batch.queries)
               /\ batch.rollback = "none"
        /\ (batch.pc = "done" /\ batch.commit = "rejected") =>
               /\ batch.outcome.threw
               /\ batch.store = {}

\* Three queries, given in another order than they are numbered and settled
\* in yet another, all fulfilled: the batch has ended, committed.
C10_Witness ==
    /\ batch.pc = "done"
    /\ batch.queries = <<2, 3, 1>>
    /\ batch.arrival = <<3, 1, 2>>
    /\ Settled("fulfilled") = {1, 2, 3}
    /\ batch.commit = "fulfilled"

(***************************************************************************)
(* C11, C12                                                                *)
(***************************************************************************)
\* C11: every row the database returns for the projection that the
\* eager-fetch compiler emitted for a Model is accepted by the hydrator:
\* a find whose result holds rows does not end in an Error.
C11_ProjectedRowsAccepted ==
    \A i \in 1..Len(factory.calls) :
        (factory.calls[i].call = "find" /\ factory.calls[i].rows # <<>>)
            => ~factory.calls[i].out.threw

\* C12: creating an entity from a property bag that satisfies the schema
\* and hydrating the returned row yields a Node whose property map holds
\* the validated, defaulted input.
C12_CreatedEqualsInput ==
    \A i \in 1..Len(factory.calls) :
        LET c == factory.calls[i]
        IN c.call = "create" =>
              /\ ~c.out.threw
              /\ "properties" \in DOMAIN c.out.value
              /\ c.out.value.properties =
                     [key \in DOMAIN c.validated |-> String(<<c.validated[key].v>>)]

(***************************************************************************)
(* C13 .. C18                                                              *)
(***************************************************************************)
\* The Nodes of a hydrated value, those nested in it included.
RECURSIVE NodesOf(_)
NodesOf(x) ==
    IF "t" \notin DOMAIN x THEN {}
    ELSE CASE x.t = "Node" -> {x} \cup UNION {NodesOf(x.eager[n]) : n \in DOMAIN x.eager}
           [] x.t \in {"NodeCollection", "RelationshipCollection"} ->
                  UNION {NodesOf(x.items[i]) : i \in 1..Len(x.items)}
           [] x.t = "Relationship" -> NodesOf(x.startNode) \cup NodesOf(x.endNode)
           [] OTHER -> {}

\* The rows of the last call that lack the field of an eager relationship
\* of the Model the call names.
LackingRows ==
    {i \in 1..Len(factory.records) :
        /\ factory.definition.t = "Model"
        /\ \E rel \in Range(Model_eager(models[factory.definition.name])) :
              ~hasOwn(factory.records[i], rel.name)}

RowOutcome(i) ==
    hydrateNode(Registry, factory.records[i], factory.definition, <<<<<<"row">>, i>>>>)

\* C14: a hydrate call returns one entity for every row of the result, in
\* the order of the rows and each with an entry for every eager
\* relationship of its Model, or it fails as a whole: when a row, or an
\* entity nested in a row, cannot be hydrated, the call ends in an Error.
C14_AllRowsOrError ==
    (factory.pc = "called" /\ factory.call = "hydrate") =>
        IF \E i \in 1..Len(factory.records) : RowOutcome(i).threw
        THEN factory.out.threw
        ELSE /\ ~factory.out.threw
             /\ factory.out.value.items =
                    [i \in 1..Len(factory.records) |-> RowOutcome(i).value]
             /\ \A node \in NodesOf(factory.out.value) :
                   DOMAIN node.eager =
                       {rel.name : rel \in Range(Model_eager(models[node.model]))}

\* Two rows of which the first can be hydrated and the second cannot: the
\* call has ended in the Error of the second row.
C14_Witness ==
    /\ factory.pc = "called"
    /\ factory.call = "hydrate"
    /\ Len(factory.records) = 2
    /\ ~RowOutcome(1).threw
    /\ RowOutcome(2).threw
    /\ factory.out = RowOutcome(2)

\* The Relationships held by an eager entry.
RelationshipsIn(entry) ==
    IF "t" \notin DOMAIN entry THEN {}
    ELSE IF entry.t = "Relationship" THEN {entry}
    ELSE IF entry.t = "RelationshipCollection" THEN Range(entry.items)
    ELSE {}

\* The declaration of the relationship `name` of a Model.
Declaration(model, name) ==
    CHOOSE rel \in Range(models[model]) : rel.name = name

\* C15: every key of the property map of a hydrated Node is a property
\* declared in its Model, and every key of the property map of a hydrated
\* Relationship is a property declared for that relationship; the marker
\* fields and the undeclared fields of the row are in no property map.
C15_OnlyDeclaredProperties ==
    (factory.pc = "called" /\ ~factory.out.threw) =>
        \A node \in NodesOf(factory.out.value) :
            /\ DOMAIN node.properties \subseteq factory.properties[node.model]
            /\ \A name \in DOMAIN node.eager :
                  \A r \in RelationshipsIn(node.eager[name]) :
                      DOMAIN r.properties \subseteq Declaration(node.model, name).properties

\* A Node was hydrated from a row whose properties hold an undeclared key
\* and a marker, with a Relationship whose record holds an undeclared key:
\* the property maps hold the declared keys.
C15_Witness ==
    /\ factory.pc = "called"
    /\ ~factory.out.threw
    /\ \E node \in NodesOf(factory.out.value) :
          /\ node.at = <<<<<<"row">>, 1>>>>
          /\ <<"extra">> \in DOMAIN Get(factory.records[1], <<"properties">>).v
          /\ EAGER_TYPE \in DOMAIN Get(factory.records[1], <<"properties">>).v
          /\ DOMAIN node.properties = {<<"id">>, <<"name">>}
          /\ <<"r">> \in DOMAIN node.eager
          /\ \E r \in RelationshipsIn(node.eager[<<"r">>]) :
                /\ hasOwn(Get(factory.records[1], <<"r">>), <<"extra">>)
                /\ DOMAIN r.properties = {<<"since">>}

\* C16: every key of the eager map of a hydrated Node is the name of a
\* relationship that its Model declares eager; a field of the row that
\* belongs to a relationship declared without eager, or to none, is not
\* materialized.
C16_OnlyEagerRelationships ==
    (factory.pc = "called" /\ ~factory.out.threw) =>
        \A node \in NodesOf(factory.out.value) :
            \A name \in DOMAIN node.eager :
                \E rel \in Range(models[node.model]) : rel.name = name /\ rel.eager

\* The row holds a Node under s, which the Model declares without eager,
\* and a value under r, which it declares eager: the eager map holds r only.
C16_Witness ==
    /\ factory.pc = "called"
    /\ ~factory.out.threw
    /\ \E node \in NodesOf(factory.out.value) :
          /\ node.at = <<<<<<"row">>, 1>>>>
          /\ hasOwn(factory.records[1], <<"s">>)
          /\ \E rel \in Range(models[node.model]) : rel.name = <<"s">> /\ ~rel.eager
          /\ DOMAIN node.eager = {<<"r">>}

\* The registered Models whose label set is the label set of the first row
\* of the last call.
SameLabelSet ==
    {m \in Range(factory.names) :
        Range(factory.labels[m]) =
            {l.v : l \in Range(Get(factory.records[1], <<"labels">>).v)}}

\* The Node hydrated from the first row of the last call.
FirstNode ==
    IF factory.call = "hydrate" THEN factory.out.value.items[1] ELSE factory.out.value

\* C17: the hydrator takes the Model that the call supplies; without one
\* it takes a registered Model whose label set is the label set of the
\* row, whatever the order of the labels; and when no registered Model has
\* that label set the call fails with the Error of the lookup.
C17_DefinitionByLabelSet ==
    (/\ factory.pc = "called"
     /\ Len(factory.records) = 1
     /\ Get(factory.records[1], <<"identity">>).k = "int"
     /\ Get(factory.records[1], <<"labels">>).k = "array") =>
        /\ (factory.definition.t = "Model" /\ ~factory.out.threw) =>
               FirstNode.model = factory.definition.name
        /\ (factory.definition = NoDefinition /\ ~factory.out.threw) =>
               FirstNode.model \in SameLabelSet
        /\ (factory.definition = NoDefinition /\ SameLabelSet = {}) =>
               factory.out = Failed(<<"No model definition found for labels">>)

\* C18: a Relationship hydrated from a declaration of direction In starts
\* at the other Node and ends at the Node that owns it; for direction Out
\* it starts at the owning Node and ends at the other Node.
C18_DirectionDecidesEnds ==
    (factory.pc = "called" /\ ~factory.out.threw) =>
        \A node \in NodesOf(factory.out.value) :
            \A name \in DOMAIN node.eager :
                \A r \in RelationshipsIn(node.eager[name]) :
                    LET owner == [t |-> "this", at |-> node.at]
                    IN CASE Declaration(node.model, name).direction = DIRECTION_IN ->
                               r.startNode.t = "Node" /\ r.endNode = owner
                         [] Declaration(node.model, name).direction = DIRECTION_OUT ->
                               r.startNode = owner /\ r.endNode.t = "Node"

\* A Relationship of a declaration of direction In was hydrated: the other
\* Node, of identity 2, is its start and the owner its end.
C18_Witness ==
    /\ factory.pc = "called"
    /\ ~factory.out.threw
    /\ \E node \in NodesOf(factory.out.value) :
          /\ <<"r">> \in DOMAIN node.eager
          /\ Declaration(node.model, <<"r">>).direction = DIRECTION_IN
          /\ \E r \in RelationshipsIn(node.eager[<<"r">>]) :
                /\ r.startNode.t = "Node"
                /\ r.startNode.identity = Integer(2)
                /\ r.endNode = [t |-> "this", at |-> node.at]

(***************************************************************************)
(* C19, C20                                                                *)
(***************************************************************************)
\* C19: merging the same property bag twice in sequence, for a Model with
\* a unique key, returns two hydrated entities of the same identity.
C19_MergeTwiceSameIdentity ==
    \A i \in 1..(Len(factory.calls) - 1) :
        LET first == factory.calls[i]
            second == factory.calls[i + 1]
        IN (first.call = "merge" /\ second.call = "merge" /\ first.given = second.given) =>
              /\ ~first.out.threw /\ ~second.out.threw
              /\ "identity" \in DOMAIN first.out.value
              /\ "identity" \in DOMAIN second.out.value
              /\ first.out.value.identity = second.out.value.identity

\* The sections of the last split in which the property `key` is written.
WrittenIn(key) ==
    {section \in {"inline", "onCreate", "onMatch", "set"} :
        \E i \in 1..Len(factory.out[section]) : factory.out[section][i].key = key}

\* C20: in merge mode a supplied property is written in one place: inline
\* when it is a merge key; otherwise in ON CREATE SET when its schema
\* declares it primary or protected; otherwise in SET when it is not
\* readonly; a property declared primary or protected is never written by
\* SET.  In create mode every supplied property is written inline.
C20_WrittenInOnePlace ==
    factory.pc = "called" =>
        \A key \in DOMAIN factory.properties :
            LET flags == factory.schema[key]
            IN IF factory.mode = "create" \/ key \in factory.mergeOn
               THEN WrittenIn(key) = {"inline"}
               ELSE IF flags.primary \/ flags.protected
               THEN WrittenIn(key) = {"onCreate"}
               ELSE IF ~flags.readonly THEN WrittenIn(key) = {"set"}
               ELSE WrittenIn(key) = {}

(***************************************************************************)
(* SpecRelate: Node.relateTo on a Node of the Model A, by declared and     *)
(* undeclared keys                                                         *)
(***************************************************************************)
MaxRelates == 2          \* calls of relateTo in a run

RelateDeclarations ==
    <<RelationshipType(<<"knows">>, "relationship", "KNOWS", DIRECTION_OUT, "A", FALSE, "false", <<"node">>)
        @@ [properties |-> {<<"since">>}],
      RelationshipType(<<"likes">>, "relationships", "LIKES", DIRECTION_IN, "A", FALSE, "false", <<"node">>)
        @@ [properties |-> {}]>>

\* The Model A declares `knows`; the Node `from` has its relationships
\* loaded.
RelateInit ==
    /\ models = [m \in {"A"} |-> <<RelateDeclarations[1]>>]
    /\ batch = [pc |-> "idle", eager |-> {<<"knows">>, <<"likes">>}, calls |-> <<>>]
    /\ eagerOut = NoProjection
    /\ DeleteIdle
    /\ BuilderIdle
    /\ StatementIdle
    /\ WriteIdle
    /\ FactoryIdle

RelateFrame == UNCHANGED <<stmtVars, builderVars, eagerOut, deleteVars, writeVars, factory>>

RelateNext ==
    \* Model.relationship(...): `likes` is declared retrospectively
    \/ /\ batch.pc = "idle"
       /\ Len(models["A"]) = 1
       /\ models' = [models EXCEPT !["A"] = Model_relationship(@, RelateDeclarations[2])]
       /\ UNCHANGED batch
       /\ RelateFrame
    \* from.relateTo(to, relationshipKey, properties, forceCreate), up to
    \* the rejection or to the query RelateTo sends
    \/ \E relationshipKey \in {<<"knows">>, <<"likes">>, <<"unknown">>}, forceCreate \in BOOLEAN :
       \E properties \in {<<>>, (<<"since">> :> "v1") @@ (<<"other">> :> "v2")} :
       \E relationshipType \in {Model_relationships_get(models["A"], relationshipKey)} :
       \E call \in {[key |-> relationshipKey, properties |-> properties,
                      forceCreate |-> forceCreate, model |-> models["A"]]} :
          /\ batch.pc = "idle"
          /\ Len(batch.calls) < MaxRelates
          /\ IF ~isRelationshipType(relationshipType)
             THEN batch' = [batch EXCEPT !.calls = Append(@, call @@
                               [dispatched |-> <<>>,
                                outcome |-> [threw |-> TRUE,
                                             error |-> relateTo_error(relationshipKey)]])]
             ELSE \E r \in {RelateTo_query("n1", "n2", relationshipType, properties,
                                             forceCreate)} :
                     IF r.threw
                     THEN batch' = [batch EXCEPT !.calls = Append(@, call @@
                                       [dispatched |-> <<>>,
                                        outcome |-> [threw |-> TRUE, error |-> r.error]])]
                     ELSE batch' = [batch EXCEPT
                              !.pc = "sent",
                              !.calls = Append(@, call @@
                                  [dispatched |-> <<Dispatch(cypherSession("writeCypher"),
                                                             r.query, r.params)>>])]
          /\ UNCHANGED models
          /\ RelateFrame
    \* the session rejects the query: Neode.cypher throws a QueryError
    \/ /\ batch.pc = "sent"
       /\ \E call \in {batch.calls[Len(batch.calls)]} :
             batch' = [batch EXCEPT
                !.pc = "idle",
                !.calls[Len(batch.calls)] = call @@
                    [outcome |-> [threw |-> TRUE,
                                  error |-> Neode_cypher_catch(
                                                [text |-> call.dispatched[1].query],
                                                call.dispatched[1].params,
                                                [t |-> "Error", from |-> "session"])]]]
       /\ UNCHANGED models
       /\ RelateFrame
    \* the session returns the relationship: RelateTo builds the
    \* Relationship and relateTo drops the key from the loaded relationships
    \/ /\ batch.pc = "sent"
       /\ \E call \in {batch.calls[Len(batch.calls)]} :
          \E relationship \in {Model_relationships_get(call.model, call.key)} :
             batch' = [batch EXCEPT
                !.pc = "idle",
                !.eager = @ \ {call.key},
                !.calls[Len(batch.calls)] = call @@
                    [outcome |-> [threw |-> FALSE,
                                  value |-> RelateTo_result("n1", "n2", relationship,
                                      [identity |-> "r1", type |-> relationship.relationship,
                                       properties |-> [key \in relationship.properties
                                                              \cap DOMAIN call.properties |->
                                                          call.properties[key]]])]]]
       /\ UNCHANGED models
       /\ RelateFrame

SpecRelate == RelateInit /\ [][RelateNext]_vars

(***************************************************************************)
(* SpecGroup: one WhereStatement, the filter group, under the calls of its *)
(* public methods                                                          *)
(***************************************************************************)
MaxGroupCalls == 5       \* calls made on a filter group

\* A group was opened: `new WhereStatement()`.
GroupInit ==
    /\ factory = [pc |-> "open", group |-> WhereStatement(""),
                  chosen |-> WhereStatement("").connector, calls |-> 0, texts |-> <<>>]
    /\ EagerIdle
    /\ DeleteIdle
    /\ BuilderIdle
    /\ StatementIdle
    /\ WriteIdle
    /\ BatchIdle

GroupFrame == UNCHANGED <<stmtVars, builderVars, eagerVars, deleteVars, writeVars, batch>>

GroupNext ==
    \* new WhereStatement(prefix): another group is opened
    \/ \E prefix \in {"", "OR"} :
          /\ factory.calls < MaxGroupCalls
          /\ factory' = [factory EXCEPT !.group = WhereStatement(prefix),
                                        !.chosen = WhereStatement(prefix).connector,
                                        !.calls = @ + 1, !.texts = <<>>]
          /\ GroupFrame
    \* append(clause)
    \/ \E clause \in {Where(<<"a", ".", "x">>, "=", <<"x">>), WhereRaw(<<"x", "IS", "NULL">>)} :
          /\ factory.calls < MaxGroupCalls
          /\ factory' = [factory EXCEPT !.group = WhereStatement_append(@, clause),
                                        !.calls = @ + 1]
          /\ GroupFrame
    \* setConnector(connector)
    \/ \E connector \in {"AND", "OR", "XOR"} :
          /\ factory.calls < MaxGroupCalls
          /\ factory' = [factory EXCEPT !.group = WhereStatement_setConnector(@, connector),
                                        !.calls = @ + 1]
          /\ GroupFrame
    \* toString()
    \/ /\ factory.calls < MaxGroupCalls
       /\ factory' = [factory EXCEPT !.texts = Append(@, WhereStatement_toString(factory.group)),
                                     !.calls = @ + 1]
       /\ GroupFrame

SpecGroup == GroupInit /\ [][GroupNext]_vars

(***************************************************************************)
(* SpecFilter: pattern-opening calls and the where family on one Builder,  *)
(* ended by build                                                          *)
(*                                                                         *)
(* Each entry of `calls` holds the conditions the call appended to the     *)
(* open filter group and the place of the Statement that was open.         *)
(***************************************************************************)
MaxFilterCalls == 4      \* calls made before build

\* The conditions a call left in the open filter group beyond those the
\* group held before; `fresh` when the call opened the group itself.
AppendedBy(b, r, fresh) ==
    IF r.threw \/ ~IsSet(r.b.where) THEN <<>>
    ELSE IF fresh \/ ~IsSet(b.where) THEN r.b.where.clauses
    ELSE SubSeq(r.b.where.clauses, Len(b.where.clauses) + 1, Len(r.b.where.clauses))

FilterCall(op, r, fresh) ==
    /\ Len(calls) < MaxFilterCalls
    /\ builder' = r.b
    /\ opened' = (opened \/ (~r.threw /\ op \in {"match", "optionalMatch", "create", "merge", "with"}))
    /\ calls' = Append(calls, [op |-> op, threw |-> r.threw,
                               group |-> IF IsSet(builder.where)
                                         THEN builder.where.clauses ELSE <<>>,
                               appended |-> AppendedBy(builder, r, fresh),
                               statement |-> Len(r.b.statements) + 1])
    /\ UNCHANGED <<stmtVars, compilerVars>>

FilterNext ==
    \/ FilterCall("match", Builder_match(builder, <<"a">>, "Person", <<>>), FALSE)
    \/ FilterCall("optionalMatch", Builder_optionalMatch(builder, <<"b">>, "Person"), FALSE)
    \/ \E op \in {"create", "merge"} :
          FilterCall(op, IF op = "create" THEN Builder_create(builder, <<"c">>, "Person", <<>>)
                         ELSE Builder_merge(builder, <<"c">>, "Person", <<>>), FALSE)
    \/ FilterCall("with", Builder_with(builder, <<<<"a">>>>), FALSE)
    \/ \E args \in {a \in WhereArgs : a.form \in {"object", "array", "none"}
                                       \/ (a.form = "kv" /\ a.value = "v1")} :
          FilterCall("where", Builder_where(builder, args), FALSE)
    \/ \E args \in {a \in WhereArgs : a.form \in {"object", "array", "none"}
                                       \/ (a.form = "kv" /\ a.value = "v1")} :
          FilterCall("whereNot", Builder_whereNot(builder, args), FALSE)
    \/ \E args \in {a \in WhereArgs : a.form = "kov"} :
          FilterCall("or", Builder_or(builder, args), TRUE)
    \/ FilterCall("whereId", Builder_whereId(builder, <<"a">>, "v1"), FALSE)
    \/ FilterCall("whereRaw", Builder_whereRaw(builder, <<"x", "IS", "NULL">>), FALSE)
    \/ FilterCall("whereBetween",
                  Builder_whereBetween(builder, <<"a", ".", "age">>, "v1", "v2"), FALSE)
    \* Builder.build(): the last call
    \/ \E r \in {Builder_build(builder)} :
          /\ calls # <<>>
          /\ calls[Len(calls)].op # "build"
          /\ builder' = r.b
          /\ calls' = Append(calls, [op |-> "build", threw |-> r.threw,
                                     group |-> <<>>, appended |-> <<>>,
                                     statement |-> Len(r.b.statements) + 1])
          /\ UNCHANGED <<opened, stmtVars, compilerVars>>

SpecFilter == BuilderInit /\ [][FilterNext]_vars

(***************************************************************************)
(* SpecSession: the sessions that Builder.execute (part_010, 817-851),     *)
(* Neode.cypher, readCypher, writeCypher (query/Statement.ts, 1120-1175)   *)
(* and Neode.transaction (1207-1235) open, through try, catch and finally  *)
(***************************************************************************)
MaxSessionCalls == 2     \* calls that open a session

\* `finally { await session.close() }` (`session?.close()` in execute)
\* A variant that closes the session only when nothing was thrown.
session_close_onSuccess(call) ==
    IF call.threw THEN call ELSE [call EXCEPT !.closed = @ + 1]
session_close(call) == [call EXCEPT !.closed = @ + 1]

SessionInit ==
    /\ batch = [pc |-> "idle", log |-> <<>>]
    /\ EagerIdle
    /\ DeleteIdle
    /\ BuilderIdle
    /\ StatementIdle
    /\ WriteIdle
    /\ FactoryIdle

SessionFrame == UNCHANGED <<stmtVars, builderVars, eagerVars, deleteVars, writeVars, factory>>

SessionNext ==
    \* the call begins: the session is opened before the try block; execute
    \* and the cypher methods send their query, transaction begins a
    \* transaction and awaits the callback
    \/ \E api \in {"execute", "cypher", "readCypher", "writeCypher", "transaction"} :
          /\ batch.pc = "idle"
          /\ Len(batch.log) < MaxSessionCalls
          /\ batch' = [pc |-> IF api = "transaction" THEN "body" ELSE "run",
                       log |-> batch.log,
                       call |-> [api |-> api, opened |-> 1, closed |-> 0, run |-> "pending",
                                 commit |-> "none", rollback |-> "none", threw |-> FALSE]]
          /\ SessionFrame
    \* session.executeWrite / executeRead / run settles; a rejection goes
    \* through the catch block, which throws
    \/ \E ok \in BOOLEAN :
          /\ batch.pc = "run"
          /\ batch' = [batch EXCEPT !.pc = "finally",
                                    !.call.run = IF ok THEN "fulfilled" ELSE "rejected",
                                    !.call.threw = ~ok]
          /\ SessionFrame
    \* runInTransaction(tx) settles: `await tx.commit()` follows in the try
    \* block, `await tx.rollback()` in the catch block
    \/ \E ok \in BOOLEAN :
          /\ batch.pc = "body"
          /\ batch' = [batch EXCEPT !.pc = IF ok THEN "commit" ELSE "rollback",
                                    !.call.run = IF ok THEN "fulfilled" ELSE "rejected",
                                    !.call.commit = IF ok THEN "invoked" ELSE @,
                                    !.call.rollback = IF ok THEN @ ELSE "invoked"]
          /\ SessionFrame
    \* tx.commit() settles; a rejection is caught
    \/ \E ok \in BOOLEAN :
          /\ batch.pc = "commit"
          /\ batch' = [batch EXCEPT !.pc = IF ok THEN "finally" ELSE "rollback",
                                    !.call.commit = IF ok THEN "fulfilled" ELSE "rejected",
                                    !.call.rollback = IF ok THEN @ ELSE "invoked"]
          /\ SessionFrame
    \* tx.rollback() settles; the catch block throws either way
    \/ \E ok \in BOOLEAN :
          /\ batch.pc = "rollback"
          /\ batch' = [batch EXCEPT !.pc = "finally",
                                    !.call.rollback = IF ok THEN "fulfilled" ELSE "rejected",
                                    !.call.threw = TRUE]
          /\ SessionFrame
    \* the finally block, and the call settles
    \/ /\ batch.pc = "finally"
       /\ batch' = [pc |-> "idle", log |-> Append(batch.log, session_close(batch.call))]
       /\ SessionFrame

SpecSession == SessionInit /\ [][SessionNext]_vars

(***************************************************************************)
(* SpecAlias: a schema is declared with relationship names that hold the   *)
(* characters the compilers put between the parts of an alias, and the     *)
(* eager projection and the cascade delete of the root are compiled        *)
(***************************************************************************)
MaxAliasDeclarations == 3
AliasDepth == 3          \* the toDepth Node.delete is called with

\* Names are texts: "a", "b", "a_nodeb" and "a_node_b".
AliasNames == {<<"a">>, <<"b">>, <<"a", "_", "node", "b">>, <<"a", "_", "node", "_", "b">>}

AliasDeclarations ==
    {RelationshipType(name, "node", "REL", DIRECTION_OUT, target, TRUE, "DELETE", <<"node">>) :
        name \in AliasNames, target \in {"A", "B"}}

AliasFrame == UNCHANGED <<graph, stmtVars, builderVars, writeVars, batch, factory>>

AliasNext ==
    \* Model.relationship(...)
    \/ \E m \in DOMAIN models, rel \in AliasDeclarations :
          /\ ~IsSet(eagerOut)
          /\ ~IsSet(deleteOut)
          /\ Declared(models) < MaxAliasDeclarations
          /\ models' = [models EXCEPT ![m] = Model_relationship(@, rel)]
          /\ UNCHANGED <<eagerOut, deleteOut>>
          /\ AliasFrame
    \* FindAll, FindById, First: eagerNode(neode, 1, "this", model)
    \/ /\ ~IsSet(eagerOut)
       /\ eagerOut' = eagerNode(models, 1, <<"this">>, "A")
       /\ UNCHANGED <<models, deleteOut>>
       /\ AliasFrame
    \* Node.delete(toDepth): DeleteNode up to builder.build()
    \/ \E r \in {DeleteNode(models, ToString(0), "A", AliasDepth)} :
          /\ ~IsSet(deleteOut)
          /\ deleteOut' = [t |-> "delete", threw |-> r.threw,
                           statements |-> IF r.threw THEN <<>> ELSE r.b.statements]
          /\ UNCHANGED <<models, eagerOut>>
          /\ AliasFrame

SpecAlias == SchemaInit /\ [][AliasNext]_vars

(***************************************************************************)
(* C21 .. C23                                                              *)
(***************************************************************************)
\* The sections of a query in the order of its text.
RECURSIVE SectionsOf(_)
SectionsOf(query) ==
    IF query = <<>> THEN <<>> ELSE Head(query) \o SectionsOf(Tail(query))

\* The aliases the cascade expansion of a query has visited: the node at
\* the far end of every OPTIONAL MATCH pattern.
VisitedAliases(query) ==
    {SectionsOf(query)[i].items[3].alias :
        i \in {i \in 1..Len(SectionsOf(query)) : SectionsOf(query)[i].kw = "OPTIONAL MATCH"}}

\* C21: the query of a cascade delete has exactly one DETACH DELETE
\* clause, which comes after every OPTIONAL MATCH and lists the root alias
\* and every alias the expansion visited.
C21_OneDetachDeleteLast ==
    (IsSet(deleteOut) /\ ~deleteOut.threw) =>
        LET sections == SectionsOf(deleteOut.query)
            deletes == {i \in 1..Len(sections) : sections[i].kw = "DETACH DELETE"}
            matches == {i \in 1..Len(sections) : sections[i].kw = "OPTIONAL MATCH"}
        IN /\ Cardinality(deletes) = 1
           /\ \A i \in deletes :
                 /\ \A j \in matches : j < i
                 /\ Range(sections[i].items) = VisitedAliases(deleteOut.query) \cup {<<"this">>}

\* The root's Model declares a relationship with the cascade policy p.
RootCascades(p) == \E i \in 1..Len(models["A"]) : models["A"][i].cascade = p

\* C22: after the delete of a root that is related to a further entity
\* through a relationship with cascade DETACH, the root is gone together
\* with its relationships, and the entity at the other end is still in the
\* graph (unless a cascade=DELETE relationship of the root reaches it too).
C22_DetachKeepsOtherEnd ==
    (/\ IsSet(deleteOut)
     /\ ~deleteOut.threw
     /\ RootCascades("DETACH")
     /\ 1 \in deleteOut.before) =>
        /\ 0 \notin graph
        /\ ~RootCascades("DELETE") => 1 \in graph

\* The <<from, to>> aliases of the OPTIONAL MATCH patterns of a query.
Hops(query) ==
    {<<SectionsOf(query)[i].items[1].alias, SectionsOf(query)[i].items[3].alias>> :
        i \in {i \in 1..Len(SectionsOf(query)) : SectionsOf(query)[i].kw = "OPTIONAL MATCH"}}

\* The number of patterns on the chain that leads from the root to alias.
RECURSIVE ChainLength(_, _)
ChainLength(hops, alias) ==
    IF \E h \in hops : h[2] = alias
    THEN 1 + ChainLength(hops, (CHOOSE h \in hops : h[2] = alias)[1])
    ELSE 0

\* A Model's cascade=DELETE relationship leads back to the Model, directly
\* or through the other Model.
CascadeCycle ==
    LET cascades(m, n) ==
            \E i \in 1..Len(models[m]) :
                models[m][i].cascade = "DELETE" /\ models[m][i].target = n
    IN cascades("A", "A") \/ (cascades("A", "B") /\ cascades("B", "A"))

\* C23: the compile of a delete ends, and no chain of OPTIONAL MATCH
\* patterns of the query is longer than the depth the caller passed (10 by
\* default), cyclic cascade=DELETE declarations included.
C23_CascadeChainBounded ==
    IsSet(deleteOut) =>
        \/ deleteOut.threw
        \/ \E hops \in {Hops(deleteOut.query)} :
              \A h \in hops : ChainLength(hops, h[2]) <= deleteOut.toDepth

C23_Witness ==
    /\ IsSet(deleteOut)
    /\ ~deleteOut.threw
    /\ CascadeCycle
    /\ deleteOut.toDepth = DeleteNode_MAX_EAGER_DEPTH
    /\ \E hops \in {Hops(deleteOut.query)} :
          \E h \in hops : ChainLength(hops, h[2]) = DeleteNode_MAX_EAGER_DEPTH

(***************************************************************************)
(* C24                                                                     *)
(***************************************************************************)
\* The projection of the node at the far end of an eager sub-pattern.
TargetNode(p) == IF p.fields.t = "node" THEN p.fields ELSE p.fields.node

\* The depth at which a node's projection was compiled (its indent is
\* "  ".repeat(depth * 2)).
DepthOf(x) == x.indent \div 2

RECURSIVE TargetsOneDeeper(_)
TargetsOneDeeper(x) ==
    \A i \in 1..Len(x.eager) :
        /\ DepthOf(TargetNode(x.eager[i])) = DepthOf(x) + 1
        /\ TargetsOneDeeper(TargetNode(x.eager[i]))

\* C24: for each of the four shapes, the projection of the target of an
\* eager relationship expanded at depth d is compiled at depth d + 1.
C24_TargetAtNextDepth == IsSet(eagerOut) => TargetsOneDeeper(eagerOut)

(***************************************************************************)
(* C25                                                                     *)
(***************************************************************************)
\* The Models registered after the i-th call of extend.
RegisteredAfter(i) ==
    IF factory.calls[i].out.threw THEN factory.calls[i].before
    ELSE factory.calls[i].out.value.map.models

\* The declarations of the original merged with the additions: a
\* declaration of the original stays unless an addition has its key, and
\* every addition is there.
MergedDeclarations(original, using, extended) ==
    LET added(kind) == {using[j] : j \in {j \in 1..Len(using) : using[j].kind = kind}}
        replaced(key) == \E j \in 1..Len(using) : using[j].key = key
    IN /\ {p.name : p \in Range(extended.properties)}
              = {p.name : p \in Range(original.properties)}
                \cup {e.key : e \in added("property")}
       /\ \A p \in Range(original.properties) :
              ~replaced(p.name) => p \in Range(extended.properties)
       /\ \A e \in added("property") :
              \E p \in Range(extended.properties) :
                  p.name = e.key /\ p.type = e.schema.type /\ p.primary = e.schema.primary
       /\ Range(extended.relationships)
              = {r \in Range(original.relationships) : ~replaced(r.name)}
                \cup {e.rel : e \in added("relationship")}

\* C25: extend(name, as, using) on a registered Model registers under `as`
\* a Model whose labels are the original's and `as`, whose properties and
\* relationships are the original's merged with the additions, and it
\* leaves the original as it was.
C25_ExtendDerivesNewModel ==
    \A i \in 1..Len(factory.calls) :
        LET c == factory.calls[i]
        IN c.name \in DOMAIN c.before =>
              /\ ~c.out.threw
              /\ c.as \in DOMAIN RegisteredAfter(i)
              /\ RegisteredAfter(i)[c.as] = c.out.value.model
              /\ c.out.value.model.name = c.as
              /\ Range(c.out.value.model.labels) = Range(c.before[c.name].labels) \cup {<<c.as>>}
              /\ MergedDeclarations(c.before[c.name], c.using, c.out.value.model)
              /\ \A n \in DOMAIN c.before : RegisteredAfter(i)[n] = c.before[n]

(***************************************************************************)
(* C26, C27                                                                *)
(***************************************************************************)
\* C26: when the session rejects a query, whichever of execute, cypher,
\* readCypher and writeCypher sent it, the caller receives a QueryError
\* that carries the text and the parameters that were sent and the
\* session's error.
C26_RejectionsWrapped ==
    (batch.pc \in {"close", "done"} /\ batch.rejected) =>
        /\ batch.outcome.threw
        /\ batch.outcome.error.t = "QueryError"
        /\ batch.outcome.error.query = batch.dispatched[1].query
        /\ batch.outcome.error.params = batch.dispatched[1].params
        /\ batch.outcome.error.cause = [t |-> "Error", from |-> "session"]

\* C27: a call of execute(mode) sends one query, the text of the
\* Statements of the Builder with the Builder's parameter table, through a
\* write session for WRITE and a read session otherwise, once; when the
\* session accepts it the call returns the session's result.
C27_ExecuteDispatchesOnce ==
    (batch.pc # "idle" /\ batch.api = "execute") =>
        /\ Len(batch.dispatched) = 1
        /\ batch.sessions = <<IF batch.mode = "WRITE" THEN "write" ELSE "read">>
        /\ batch.dispatched[1].session = batch.sessions[1]
        /\ batch.pc \in {"sent", "close"} =>
              /\ batch.dispatched[1].query = joinLines(Builder_query(builder))
              /\ batch.dispatched[1].params = builder.params
        /\ (batch.pc = "done" /\ ~batch.rejected) =>
              batch.outcome = [threw |-> FALSE, value |-> <<"result", batch.dispatched[1]>>]

\* A Builder with a pattern, a condition and a RETURN is executed in READ
\* mode, as the second query run, and the session accepts it.
C27_Witness ==
    /\ batch.pc = "done"
    /\ batch.api = "execute"
    /\ batch.mode = "READ"
    /\ batch.runs = 2
    /\ ~batch.rejected
    /\ Len(batch.dispatched[1].query) = 3
    /\ DOMAIN batch.dispatched[1].params # {}


(***************************************************************************)
(* C28                                                                     *)
(***************************************************************************)
\* The relationships of the written Model for which the payload of the
\* call holds a value and whose named target is not registered.
Unresolvable ==
    {i \in 1..Len(models["A"]) :
        /\ models["A"][i].name \in DOMAIN batch.given[1][0]
        /\ models["A"][i].target # NoModel
        /\ models["A"][i].target \notin DOMAIN models}

\* C28: a write whose payload supplies a value for a relationship whose
\* named target is not registered fails while it is compiled, before a
\* query is sent, with an error that names the relationship and the Model
\* that owns it.
C28_UnresolvableTargetNamed ==
    (batch.pc \in {"rejected", "sent"} /\ Unresolvable # {}) =>
        /\ batch.pc = "rejected"
        /\ batch.dispatched = <<>>
        /\ \A i \in Unresolvable :
              /\ Mentions(batch.error.message, models["A"][i].name)
              /\ Mentions(batch.error.message, <<"A">>)


(***************************************************************************)
(* C29                                                                     *)
(***************************************************************************)
\* The keys the Model declared as relationships when the call was made.
DeclaredKeys(call) == {call.model[i].name : i \in 1..Len(call.model)}

\* C29: relateTo by a key that is not a declared relationship of the
\* Model of the source Node rejects with the relationship-not-found error
\* and sends no query.
C29_UndeclaredKeyRejected ==
    \A i \in 1..Len(batch.calls) :
        batch.calls[i].key \notin DeclaredKeys(batch.calls[i]) =>
            /\ "outcome" \in DOMAIN batch.calls[i]
            /\ batch.calls[i].outcome.threw
            /\ batch.calls[i].outcome.error = relateTo_error(batch.calls[i].key)
            /\ batch.calls[i].dispatched = <<>>

\* A relationship was created through a declared key, and a call by an
\* undeclared key followed.
C29_Witness ==
    /\ Len(batch.calls) = 2
    /\ batch.calls[1].key \in DeclaredKeys(batch.calls[1])
    /\ ~batch.calls[1].outcome.threw
    /\ batch.calls[2].key \notin DeclaredKeys(batch.calls[2])
    /\ batch.calls[2].outcome.threw


(***************************************************************************)
(* C30                                                                     *)
(***************************************************************************)
\* The texts of the group that join two leaves or more.
Joined == {i \in 1..Len(factory.texts) :
              ~factory.texts[i].empty /\ Len(factory.texts[i].leaves) > 1}

\* C30: the leaves of a filter group are all joined by one connector, the
\* one the group had when it was opened, whatever calls were made on the
\* group since.
C30_ConnectorFixedAtOpening ==
    \A i \in Joined :
        \A j \in 1..Len(factory.texts[i].connectors) :
            factory.texts[i].connectors[j] = factory.chosen


(***************************************************************************)
(* C31 .. C33                                                              *)
(***************************************************************************)
\* The Statements a Builder has closed are still there, in their places.
KeepsStatements(before, after) ==
    /\ Len(after.statements) >= Len(before.statements)
    /\ SubSeq(after.statements, 1, Len(before.statements)) = before.statements

\* C31: once the alias list has gone past the guard the compilation goes
\* on without an error: no step throws, no step opens a node pattern for a
\* further alias or begins a nested entity, and no step takes a Statement
\* out of the query.
C31_GuardTruncatesSilently ==
    /\ [](Len(aliases) > MAX_CREATE_DEPTH => wstatus # "threw")
    /\ [][(wstatus = "running" /\ Len(aliases) > MAX_CREATE_DEPTH) =>
             /\ wstatus' \in {"running", "done"}
             /\ aliases' = aliases
             /\ Len(wstack') <= Len(wstack)
             /\ KeepsStatements(builder, builder')
             /\ NodeAliases(builder') = NodeAliases(builder)]_vars

\* A chain of nested bags that is longer than the guard allows: the loop
\* of the last entity that was begun has gone past the key that holds the
\* next one, and the compilation is still under way.
C31_Witness ==
    /\ wstatus = "running"
    /\ Len(aliases) = MAX_CREATE_DEPTH + 1
    /\ Head(wstack).entered
    /\ Head(wstack).rel > 1
    /\ <<"child">> \in DOMAIN Head(wstack).properties
    /\ Head(wstack).properties[<<"child">>].k = "bag"
    /\ Head(wstack).properties[<<"child">>].v = MAX_CREATE_DEPTH + 1


\* The values an object of the payload holds under the node and nodes
\* relationships, one for each entity at the other end.
NestedValues(o) ==
    (IF <<"child">> \in DOMAIN payload[o] THEN <<payload[o][<<"child">>]>> ELSE <<>>)
    \o (IF <<"children">> \in DOMAIN payload[o]
        THEN IF payload[o][<<"children">>].k = "array"
             THEN payload[o][<<"children">>].v ELSE <<payload[o][<<"children">>]>>
        ELSE <<>>)

\* The levels of relationship nesting below an object, counted up to the
\* given number of levels.
RECURSIVE NestingDepth(_, _)
NestingDepth(o, fuel) ==
    LET values == NestedValues(o)
        below(i) == IF values[i].k = "bag" /\ fuel > 0
                    THEN NestingDepth(values[i].v, fuel - 1) ELSE 0
    IN IF values = <<>> THEN 0
       ELSE 1 + Max({below(i) : i \in 1..Len(values)})

\* The nested entities of an object: those it relates to and theirs.
RECURSIVE NestedEntities(_)
NestedEntities(o) ==
    LET values == NestedValues(o)
    IN SumOver([i \in 1..Len(values) |->
                   1 + (IF values[i].k = "bag" THEN NestedEntities(values[i].v) ELSE 0)])

\* The payload relates its entities through the node and nodes shapes
\* only, which the compilation leaves in the payload.
PlainPayload ==
    \A o \in DOMAIN payload :
        <<"link">> \notin DOMAIN payload[o] /\ <<"links">> \notin DOMAIN payload[o]

\* C32: a payload that is nested at most 99 levels deep is compiled
\* completely, however many entities it holds: when the compilation is
\* done the query opens a node pattern for the root and for every nested
\* entity.
C32_ShallowPayloadComplete ==
    (/\ wstatus = "done"
     /\ PlainPayload
     /\ NestingDepth(0, MAX_CREATE_DEPTH + 1) <= MAX_CREATE_DEPTH)
    => Cardinality(NodeAliases(builder)) = 1 + NestedEntities(0)


\* The Statements of the query in their order, the open one last.
QueryStatements(b) ==
    IF IsSet(b.current) THEN Append(b.statements, b.current) ELSE b.statements

\* The aliases of the node patterns of a Statement.
PatternAliases(s) ==
    {s.pattern[i].alias : i \in {i \in 1..Len(s.pattern) : s.pattern[i].t = "Match"}}

\* The alias is bound by a Statement before the j-th and carried by every
\* WITH between the two.
BoundBefore(all, j, alias) ==
    \E i \in 1..(j - 1) :
        /\ all[i].t = "Statement"
        /\ alias \in PatternAliases(all[i])
        /\ \A k \in (i + 1)..(j - 1) :
              all[k].t \in {"WithStatement", "WithDistinctStatement"}
                  => alias \in Range(all[k].with)

\* C33: every relationship pattern of a compiled write runs between two
\* aliases that an earlier Statement of the query bound and that every
\* WITH in between carries.
C33_RelationshipEndsBound ==
    \A all \in {QueryStatements(builder)} :
        \A j \in 1..Len(all) :
            (/\ all[j].t = "Statement"
             /\ \E i \in 1..Len(all[j].pattern) : all[j].pattern[i].t = "Relationship")
            => \A alias \in PatternAliases(all[j]) : BoundBefore(all, j, alias)


(***************************************************************************)
(* C34, C35                                                                *)
(***************************************************************************)
RECURSIVE Flatten(_)
Flatten(q) == IF q = <<>> THEN <<>> ELSE Head(q) \o Flatten(Tail(q))

\* A condition without its negation flag.
Plain(c) == [c EXCEPT !.negative = FALSE]
PlainAll(cs) == [i \in 1..Len(cs) |-> Plain(cs[i])]

\* The conditions in the text of a Statement: the leaves of its filter
\* groups, in the order of the text.
SerializedConditions(s) ==
    IF s.t # "Statement" THEN <<>>
    ELSE LET text == Statement_toString(s, TRUE)
             groups == Flatten([i \in 1..Len(text) |->
                           IF text[i].kw = "" THEN text[i].items ELSE <<>>])
             leaves(w) == LET out == WhereStatement_toString(w)
                          IN IF out.empty THEN <<>> ELSE out.leaves
         IN Flatten([i \in 1..Len(groups) |-> leaves(groups[i])])

\* The conditions the calls appended while the j-th Statement was open.
AppendedWhile(j) ==
    Flatten([i \in 1..Len(calls) |->
                IF calls[i].statement = j THEN calls[i].appended ELSE <<>>])

Built == calls # <<>> /\ calls[Len(calls)].op = "build" /\ ~calls[Len(calls)].threw

\* C34: after build, the text of every Statement holds the conditions that
\* were appended while it was open, each once and in the order of the
\* calls, and no other condition.
C34_ConditionsSerializedInPlace ==
    Built =>
        /\ \A i \in 1..Len(calls) :
              calls[i].appended # <<>> => calls[i].statement <= Len(builder.statements)
        /\ \A j \in 1..Len(builder.statements) :
              PlainAll(SerializedConditions(builder.statements[j])) = PlainAll(AppendedWhile(j))

\* Conditions were appended to two Statements, to one of them by two
\* calls and after a WITH.
C34_Witness ==
    /\ Built
    /\ \E j, k \in 1..Len(builder.statements) :
          /\ j < k
          /\ Len(SerializedConditions(builder.statements[j])) = 1
          /\ Len(SerializedConditions(builder.statements[k])) = 2
          /\ builder.statements[k - 1].t = "WithStatement"
          /\ builder.statements[k].where[1].clauses[1] # builder.statements[k].where[1].clauses[2]


\* C35: after a whereNot call that returned, every condition the call
\* appended carries the negation flag and the conditions earlier calls put
\* into the open group are as they were before the call.
LastCall == calls[Len(calls)]

C35_NegatesExactlyAppended ==
    (calls # <<>> /\ LastCall.op = "whereNot" /\ ~LastCall.threw) =>
        /\ \A i \in 1..Len(LastCall.appended) : LastCall.appended[i].negative
        /\ SubSeq(builder.where.clauses, 1, Len(LastCall.group)) = LastCall.group


(***************************************************************************)
(* C36, C37                                                                *)
(***************************************************************************)
BodySucceeded == ~batch_body(Promise_allSettled(batch.promises, batch.arrival)).threw

\* C36: when a call of batch that opened a transaction has settled, commit
\* alone was invoked on the transaction if the callback returned, and
\* rollback alone if the callback threw.
C36_CommitOrRollbackAlone ==
    (batch.pc = "done" /\ batch.given) =>
        IF BodySucceeded THEN batch.commit # "none" /\ batch.rollback = "none"
        ELSE batch.commit = "none" /\ batch.rollback # "none"


\* C37: a call that has settled opened one session and invoked close on it
\* once, whether it returned or threw and whichever of the query, the
\* callback, commit and rollback was rejected; while the call is under way
\* close has not been invoked.
C37_SessionClosedOnce ==
    /\ \A i \in 1..Len(batch.log) : batch.log[i].opened = 1 /\ batch.log[i].closed = 1
    /\ batch.pc # "idle" => batch.call.closed = 0

C37_Witness ==
    /\ \E i \in 1..Len(batch.log) :
          /\ batch.log[i].api = "transaction"
          /\ batch.log[i].commit = "rejected"
          /\ batch.log[i].rollback = "rejected"
    /\ \E i \in 1..Len(batch.log) : batch.log[i].api = "execute" /\ batch.log[i].threw


(***************************************************************************)
(* C38                                                                     *)
(***************************************************************************)
NoDuplicates(q) == \A i, j \in 1..Len(q) : q[i] = q[j] => i = j

\* The node variables of a projection, one per eagerPattern call.
RECURSIVE EagerAliases(_)
EagerAliases(node) ==
    Flatten([i \in 1..Len(node.eager) |->
                <<node.eager[i].fields.alias>> \o EagerAliases(node.eager[i].fields)])

\* The aliases the Statements of a cascade delete remove, one per call of
\* addCascadeDeleteNode and one for the root.
DeletedAliases(statements) ==
    Flatten([i \in 1..Len(statements) |-> statements[i].detach_delete])

\* The relationship aliases of the patterns of a cascade delete.
RelationshipAliases(statements) ==
    Flatten([i \in 1..Len(statements) |->
                LET rels == SelectSeq(statements[i].pattern, LAMBDA p : p.t = "Relationship")
                IN [k \in 1..Len(rels) |-> rels[k].alias]])

\* C38: the calls of eagerPattern within one projection give pairwise
\* different node variables, and the calls of addCascadeDeleteNode within
\* one delete give pairwise different node and relationship aliases.
C38_PathsAliasedApart ==
    /\ IsSet(eagerOut) => NoDuplicates(EagerAliases(eagerOut))
    /\ (IsSet(deleteOut) /\ ~deleteOut.threw) =>
           /\ NoDuplicates(DeletedAliases(deleteOut.statements))
           /\ NoDuplicates(RelationshipAliases(deleteOut.statements))


(***************************************************************************)
(* C39, C40                                                                *)
(***************************************************************************)
\* C39: no step of the compilation of a write changes an object of the
\* payload.
C39_PayloadUnchanged == [][wstatus = "running" => payload' = payload]_vars


\* C40: a Statement on which limit(n) or skip(n) was called with n >= 0
\* serializes with the section LIMIT n or SKIP n.
HasNumberLine(o, kw, n) == \E i \in 1..Len(o) : o[i].kw = kw /\ o[i].items = <<n>>

C40_LimitSkipSerialized ==
    \A includePrefix \in BOOLEAN :
        /\ st.limit # NoNumber => HasNumberLine(Statement_toString(st, includePrefix), "LIMIT", st.limit)
        /\ st.skip # NoNumber => HasNumberLine(Statement_toString(st, includePrefix), "SKIP", st.skip)

====
